---- MODULE Spec2Model ----
(***************************************************************************)
(* GARU backend, services/nba_service.py: the tiered roster cache          *)
(* (get_all_players), the live fetch that builds player records, the       *)
(* rating formula and the position normaliser.                             *)
(*                                                                         *)
(* Fixed point: per-game stats are integers in tenths (30.1 ppg is 301),   *)
(* the field-goal fraction is in thousandths (0.478 is 478).  Time is in   *)
(* hours.  A Python dict is a TLA+ record (a function on strings); None    *)
(* and the empty dict are both the empty function; a Python str is a       *)
(* sequence of one-character strings; an Optional[List] is NoneVal or      *)
(* Some(list); a call that may raise returns [raised |-> TRUE] or          *)
(* [raised |-> FALSE, v |-> value].                                        *)
(***************************************************************************)
EXTENDS Integers, Sequences, FiniteSets, TLC

VARIABLES
    now,              \* datetime.now(), in hours
    supabase_client,  \* _supabase_client is not None
    cached_players,   \* rows of the Supabase table cached_players
    cache_file,       \* CACHE_FILE on disk
    ret,              \* what the last service call returned, and what it did
    fn_in,            \* argument of the pure function applied last
    fn_out,           \* its result
    journey_players,     \* rows of the Supabase table journey_players
    journey_cache_file,  \* CACHE_DIR / "journey_players.json" on disk
    cache_bytes,      \* CACHE_FILE as the chunks written to it so far
    writers           \* the save_to_cache calls in progress, by process

vars == <<now, supabase_client, cached_players, cache_file, ret, fn_in, fn_out,
          journey_players, journey_cache_file, cache_bytes, writers>>

\* The variables of the journey pipeline and of the snapshot writers.
jvars == <<journey_players, journey_cache_file>>
wvars == <<cache_bytes, writers>>

(* ------------------------------ bounds -------------------------------- *)
MaxNow == 36
HoursPerTick == 12
MaxRows == 2
MaxParts == 3

(* ----------------------- constants of the program --------------------- *)
CACHE_DURATION_HOURS == 24

(* ------------------------------ helpers -------------------------------- *)
NoneVal == [some |-> FALSE]
Some(x) == [some |-> TRUE, v |-> x]
\* Python truthiness of an Optional[List]: None and [] are both falsy.
Truthy(o) == o.some /\ o.v # <<>>

Ok(x) == [raised |-> FALSE, v |-> x]
Raise == [raised |-> TRUE]

\* dict.get(key, default)
Get(d, k, default) == IF k \in DOMAIN d THEN d[k] ELSE default

Min2(a, b) == IF a <= b THEN a ELSE b
Max2(a, b) == IF a >= b THEN a ELSE b

\* int(x) on a rational a/b with b > 0: truncation toward zero.
TruncDiv(a, b) == IF a >= 0 THEN a \div b ELSE -((-a) \div b)

\* round(x) on a rational a/b with a >= 0, b > 0 (ties cannot occur where used).
RoundDiv(a, b) == (2 * a + b) \div (2 * b)

Positions == {"PG", "SG", "SF", "PF", "C"}

(* ------------------------- rating (lines 236-247) ---------------------- *)
\* The formula without min(99, max(60, ...)).
rating_no_clamp(row) ==
    TruncDiv(50 * 1000 + row.PTS * 150 + row.REB * 80 + row.AST * 120
             + row.STL * 200 + row.BLK * 200 + row.FG_PCT * 20, 1000)

\* min(99, max(60, int(50 + pts*1.5 + reb*0.8 + ast*1.2 + stl*2 + blk*2 + fg_pct*20)))
\* with the stats in tenths and fg_pct in thousandths, everything times 1000.
rating(row) ==
    Min2(99, Max2(60,
        TruncDiv(50 * 1000 + row.PTS * 150 + row.REB * 80 + row.AST * 120
                 + row.STL * 200 + row.BLK * 200 + row.FG_PCT * 20, 1000)))

(* ------------------- position normaliser (lines 324-403) --------------- *)
Tenths(n) == n * 10

\* str.upper() on the letters the position codes are written in.
UpperChar(c) ==
    CASE c = "c" -> "C"
      [] c = "f" -> "F"
      [] c = "g" -> "G"
      [] c = "x" -> "X"
      [] OTHER -> c

Upper(s) == [i \in 1..Len(s) |-> UpperChar(s[i])]

RECURSIVE LStrip(_)
LStrip(s) == IF s # <<>> /\ s[1] = " " THEN LStrip(Tail(s)) ELSE s

RECURSIVE RStrip(_)
RStrip(s) == IF s # <<>> /\ s[Len(s)] = " " THEN RStrip(SubSeq(s, 1, Len(s) - 1)) ELSE s

\* str.strip()
Strip(s) == RStrip(LStrip(s))

\* c in s
InStr(c, s) == \E i \in 1..Len(s) : s[i] = c

\* s.split("-"): the pieces between the hyphens, n hyphens giving n+1 pieces.
RECURSIVE SplitFrom(_, _)
SplitFrom(s, cur) ==
    IF s = <<>> THEN <<cur>>
    ELSE IF s[1] = "-" THEN <<cur>> \o SplitFrom(Tail(s), <<>>)
    ELSE SplitFrom(Tail(s), Append(cur, s[1]))

Split(s) == SplitFrom(s, <<>>)

\* if stats: (None and {} are falsy)
HasStats(stats) == DOMAIN stats # {}

\* The ladder with the assists rules tried ahead of the rebounds rules.
infer_position_from_stats_guards_first(stats) ==
    IF ~HasStats(stats) THEN "SF"
    ELSE IF Get(stats, "ast", 0) > Tenths(5) THEN "PG"
    ELSE IF Get(stats, "ast", 0) > Tenths(3) /\ Get(stats, "pts", 0) < Tenths(18) THEN "PG"
    ELSE IF Get(stats, "reb", 0) > Tenths(8) /\ Get(stats, "blk", 0) > Tenths(1) THEN "C"
    ELSE IF Get(stats, "reb", 0) > Tenths(10) THEN "C"
    ELSE IF Get(stats, "reb", 0) > Tenths(6) THEN "PF"
    ELSE IF Get(stats, "pts", 0) > Tenths(15) /\ Get(stats, "reb", 0) < Tenths(5)
            /\ Get(stats, "ast", 0) < Tenths(5) THEN "SG"
    ELSE "SF"

infer_position_from_stats(stats) ==
    IF ~HasStats(stats) THEN "SF"
    ELSE LET pts == Get(stats, "pts", 0)
             reb == Get(stats, "reb", 0)
             ast == Get(stats, "ast", 0)
             blk == Get(stats, "blk", 0)
         IN  IF reb > Tenths(8) /\ blk > Tenths(1) THEN "C"
             ELSE IF reb > Tenths(10) THEN "C"
             ELSE IF reb > Tenths(6) THEN "PF"
             ELSE IF ast > Tenths(5) THEN "PG"
             ELSE IF ast > Tenths(3) /\ pts < Tenths(18) THEN "PG"
             ELSE IF pts > Tenths(15) /\ reb < Tenths(5) /\ ast < Tenths(5) THEN "SG"
             ELSE "SF"

\* The fall-through of lines 331 and 377.
infer_or_default(stats) ==
    IF HasStats(stats) THEN infer_position_from_stats(stats) ELSE "SF"

\* The combo branch with "C-F" resolved like "F-C", ahead of the primary rule.
combo_parts_cf_is_pf(parts, pos, stats) ==
    IF Len(parts) # 2 THEN Raise
    ELSE IF (parts[1] = <<"F">> /\ parts[2] = <<"C">>)
            \/ (parts[1] = <<"C">> /\ parts[2] = <<"F">>) THEN Ok("PF")
    ELSE IF parts[1] = <<"C">> THEN Ok("C")
    ELSE IF InStr("F", pos) /\ InStr("G", pos) THEN
        IF HasStats(stats) /\ Get(stats, "ast", 0) > Get(stats, "reb", 0)
        THEN Ok("SG") ELSE Ok("SF")
    ELSE IF parts[1] = <<"G">> THEN Ok("SG")
    ELSE IF parts[1] = <<"F">> THEN Ok("SF")
    ELSE Ok(infer_or_default(stats))

\* The combo branch with the test of lines 363-364 missing: "F-C" falls to the
\* primary rule of line 374.
combo_parts_no_fc_rule(parts, pos, stats) ==
    IF Len(parts) # 2 THEN Raise
    ELSE IF parts[1] = <<"C">> THEN Ok("C")
    ELSE IF InStr("F", pos) /\ InStr("G", pos) THEN
        IF HasStats(stats) /\ Get(stats, "ast", 0) > Get(stats, "reb", 0)
        THEN Ok("SG") ELSE Ok("SF")
    ELSE IF parts[1] = <<"G">> THEN Ok("SG")
    ELSE IF parts[1] = <<"F">> THEN Ok("SF")
    ELSE Ok(infer_or_default(stats))

\* Lines 358-375, entered when "-" in pos, parts being pos.split("-").
\* primary, secondary = parts raises ValueError unless there are exactly two.
combo_parts(parts, pos, stats) ==
    IF Len(parts) # 2 THEN Raise
    ELSE IF parts[1] = <<"C">> THEN Ok("C")
    ELSE IF parts[1] = <<"F">> /\ parts[2] = <<"C">> THEN Ok("PF")
    ELSE IF InStr("F", pos) /\ InStr("G", pos) THEN
        IF HasStats(stats) /\ Get(stats, "ast", 0) > Get(stats, "reb", 0)
        THEN Ok("SG") ELSE Ok("SF")
    ELSE IF parts[1] = <<"G">> THEN Ok("SG")
    ELSE IF parts[1] = <<"F">> THEN Ok("SF")
    ELSE Ok(infer_or_default(stats))

\* The normaliser with every two-component combo resolved by the single-letter
\* rule of its first component.
normalize_stripped_primary_rules(pos, stats) ==
    IF pos = <<"C">> THEN Ok("C")
    ELSE IF pos = <<"G">>
            \/ (InStr("-", pos) /\ Len(Split(pos)) = 2 /\ Split(pos)[1] = <<"G">>) THEN
        IF HasStats(stats)
           /\ (Get(stats, "ast", 0) > Tenths(4)
               \/ (Get(stats, "ast", 0) > Tenths(2) /\ Get(stats, "pts", 0) < Tenths(15)))
        THEN Ok("PG") ELSE Ok("SG")
    ELSE IF pos = <<"F">>
            \/ (InStr("-", pos) /\ Len(Split(pos)) = 2 /\ Split(pos)[1] = <<"F">>
                /\ Split(pos)[2] # <<"C">>) THEN
        IF HasStats(stats)
           /\ (Get(stats, "reb", 0) > Tenths(6) \/ Get(stats, "blk", 0) > Tenths(1))
        THEN Ok("PF") ELSE Ok("SF")
    ELSE IF InStr("-", pos) THEN combo_parts(Split(pos), pos, stats)
    ELSE Ok(infer_or_default(stats))

\* Lines 335-377, pos being pos.upper().strip().
normalize_stripped(pos, stats) ==
    IF pos = <<"C">> THEN Ok("C")
    ELSE IF pos = <<"G">> THEN
        IF HasStats(stats)
           /\ (Get(stats, "ast", 0) > Tenths(4)
               \/ (Get(stats, "ast", 0) > Tenths(2) /\ Get(stats, "pts", 0) < Tenths(15)))
        THEN Ok("PG") ELSE Ok("SG")
    ELSE IF pos = <<"F">> THEN
        IF HasStats(stats)
           /\ (Get(stats, "reb", 0) > Tenths(6) \/ Get(stats, "blk", 0) > Tenths(1))
        THEN Ok("PF") ELSE Ok("SF")
    ELSE IF InStr("-", pos) THEN combo_parts(Split(pos), pos, stats)
    ELSE Ok(infer_or_default(stats))

normalize_position(raw, stats) ==
    IF raw = <<>> THEN Ok(infer_or_default(stats))
    ELSE normalize_stripped(Strip(Upper(raw)), stats)

(* --------------------- player records (lines 234-276) ------------------ *)
\* "fg_pct": round(fg_pct * 100, 1) if fg_pct < 1 else round(fg_pct, 1), in
\* tenths of a percent, from thousandths of the fraction.
fg_pct_field(fg) == IF fg < 1000 THEN fg ELSE RoundDiv(fg, 100)

\* The player dict of lines 257-275, position being what normalize_position
\* returned; the raw cells are on the tenths grid, where round(float(x), 1)
\* keeps the value.
player_record(row, position) ==
    IF position.raised THEN Raise
    ELSE Ok([id |-> row.PLAYER_ID, position |-> position.v, gp |-> row.GP,
             pts |-> row.PTS, reb |-> row.REB, ast |-> row.AST,
             stl |-> row.STL, blk |-> row.BLK,
             fg_pct |-> fg_pct_field(row.FG_PCT), rating |-> rating(row)])

\* One iteration of the loop over df.iterrows().
build_player(row, position_map) ==
    player_record(row,
        normalize_position(Get(position_map, row.PLAYER_ID, <<>>),
                           [pts |-> row.PTS, reb |-> row.REB, ast |-> row.AST,
                            stl |-> row.STL, blk |-> row.BLK]))

\* players.append(player), unless building this or a later player raised.
Appended(p, rest) ==
    IF p.raised \/ rest.raised THEN Raise ELSE Ok(<<p.v>> \o rest.v)

RECURSIVE build_players(_, _)
build_players(rows, position_map) ==
    IF rows = <<>> THEN Ok(<<>>)
    ELSE Appended(build_player(Head(rows), position_map),
                  build_players(Tail(rows), position_map))

\* list.sort(key=lambda x: x["pts"], reverse=True): stable, so an element goes
\* after every element already placed whose pts is >= its own.
RECURSIVE InsertByPts(_, _)
InsertByPts(sorted, p) ==
    IF sorted = <<>> THEN <<p>>
    ELSE IF Head(sorted).pts >= p.pts THEN <<Head(sorted)>> \o InsertByPts(Tail(sorted), p)
    ELSE <<p>> \o sorted

RECURSIVE SortFrom(_, _)
SortFrom(done, todo) ==
    IF todo = <<>> THEN done ELSE SortFrom(InsertByPts(done, Head(todo)), Tail(todo))

\* The sort left out: the list in the order it was built.
sort_by_pts_skipped(players) == players

sort_by_pts(players) == SortFrom(<<>>, players)

(* ------------------- local snapshot (lines 148-185, 406-418) ----------- *)
Absent == [kind |-> "absent"]
Corrupt == [kind |-> "corrupt"]
Doc(ts, players) == [kind |-> "json", timestamp |-> ts, players |-> players]

\* The body of get_cached_players' try block.
cached_players_body(cf, t) ==
    IF cf.kind = "absent" THEN Ok(NoneVal)
    ELSE IF cf.kind = "corrupt" THEN Raise
    ELSE IF t - cf.timestamp > CACHE_DURATION_HOURS THEN Ok(NoneVal)
    ELSE Ok(Some(cf.players))

\* except Exception: return None
NoneOnRaise(r) == IF r.raised THEN Ok(NoneVal) ELSE r

\* get_cached_players with the except clause missing.
get_cached_players_no_except(cf, t) == cached_players_body(cf, t)

get_cached_players(cf, t) == NoneOnRaise(cached_players_body(cf, t))

get_expired_cache(cf) ==
    IF cf.kind = "absent" THEN NoneVal
    ELSE IF cf.kind = "corrupt" THEN NoneVal
    ELSE Some(cf.players)

SaveOutcomes == {"ok", "open_fails", "dump_fails"}

\* save_to_cache writing nothing.
save_to_cache_skipped(players, cf, t, outcome) == cf

\* save_to_cache adding the new roster to the records the file already holds.
save_to_cache_merges(players, cf, t, outcome) ==
    IF outcome = "ok" /\ cf.kind = "json" THEN Doc(t, cf.players \o players)
    ELSE IF outcome = "ok" THEN Doc(t, players)
    ELSE cf

\* save_to_cache: the new content of CACHE_FILE.  mkdir or open failing leaves
\* the file as it was; json.dump failing leaves the file open(.., "w") truncated.
save_to_cache(players, cf, t, outcome) ==
    CASE outcome = "ok" -> Doc(t, players)
      [] outcome = "open_fails" -> cf
      [] outcome = "dump_fails" -> Corrupt

(* --------------------- durable store (lines 16-79) --------------------- *)
\* get_supabase_client: the cached client, or a new one when the environment
\* holds the url and key and create_client succeeds.
get_supabase_client(client, client_ok) == client \/ client_ok

\* One row of cached_players converted to the player format (lines 50-68).
\* row["player_id"] raises KeyError on a row without it.
convert_row(row) ==
    IF "player_id" \notin DOMAIN row THEN Raise
    ELSE LET stats == Get(row, "season_stats", <<>>) IN
         Ok([id |-> row.player_id, position |-> Get(row, "position", "SF"),
             gp |-> Get(stats, "gp", 0),
             pts |-> Get(stats, "pts", 0), reb |-> Get(stats, "reb", 0),
             ast |-> Get(stats, "ast", 0), stl |-> Get(stats, "stl", 0),
             blk |-> Get(stats, "blk", 0), fg_pct |-> Get(stats, "fg_pct", 0),
             rating |-> Get(stats, "rating", 75)])

RECURSIVE convert_rows(_)
convert_rows(rows) ==
    IF rows = <<>> THEN Ok(<<>>)
    ELSE Appended(convert_row(Head(rows)), convert_rows(Tail(rows)))

\* Lines 71-74: sort by PPG and return, players being the converted rows.
sorted_or_raise(players) ==
    IF players.raised THEN Raise ELSE Ok(Some(sort_by_pts(players.v)))

\* The try block of get_players_from_supabase; select_ok is whether
\* client.table("cached_players").select("*").execute() returned.
supabase_body(table, select_ok) ==
    IF ~select_ok THEN Raise
    ELSE IF table # <<>> THEN sorted_or_raise(convert_rows(table))
    ELSE Ok(NoneVal)

\* db = [client_ok, select_ok]: what the store does during this call.
get_players_from_supabase(client, table, db) ==
    IF ~get_supabase_client(client, db.client_ok) THEN NoneVal
    ELSE NoneOnRaise(supabase_body(table, db.select_ok)).v

(* ----------------------- live fetch (lines 188-321) -------------------- *)
Live(raised, v, cf, trace) ==
    [raised |-> raised, v |-> v, cache_file |-> cf, trace |-> trace]

\* fetch_player_positions: time.sleep(0.6), then PlayerIndex; any exception
\* gives the empty map.
fetch_player_positions(index) == IF index.raised THEN <<>> ELSE index.v

LiveTrace == <<"sleep", "PlayerIndex", "sleep", "LeagueDashPlayerStats">>

\* Lines 278-284: sort, cache, return.
live_sorted(players, up, cf, t) ==
    Live(FALSE, players, save_to_cache(players, cf, t, up.save),
         Append(LiveTrace, "save_to_cache"))

\* Lines 234-284, built being the outcome of the loop over the rows.
live_built(built, up, cf, t) ==
    IF built.raised THEN Live(TRUE, <<>>, cf, LiveTrace)
    ELSE live_sorted(sort_by_pts(built.v), up, cf, t)

\* The live fetch with fetch_player_positions letting its exception through to
\* the except clause of fetch_all_players_live.
live_body_index_fatal(up, cf, t) ==
    IF ~up.import_ok THEN Live(TRUE, <<>>, cf, <<>>)
    ELSE IF up.index.raised THEN Live(TRUE, <<>>, cf, <<"sleep", "PlayerIndex">>)
    ELSE IF up.league.raised THEN Live(TRUE, <<>>, cf, LiveTrace)
    ELSE live_built(build_players(up.league.v, fetch_player_positions(up.index)),
                    up, cf, t)

\* The try block of fetch_all_players_live.  up = [import_ok, index, league,
\* save]: what the imports, the two endpoints and the file system do.
live_body(up, cf, t) ==
    IF ~up.import_ok THEN Live(TRUE, <<>>, cf, <<>>)
    ELSE IF up.league.raised THEN Live(TRUE, <<>>, cf, LiveTrace)
    ELSE live_built(build_players(up.league.v, fetch_player_positions(up.index)),
                    up, cf, t)

\* except ImportError / except Exception: return []
EmptyOnRaise(r) == IF r.raised THEN Live(FALSE, <<>>, r.cache_file, r.trace) ELSE r

fetch_all_players_live(up, cf, t) == EmptyOnRaise(live_body(up, cf, t))

(* ---------------------- get_all_players (lines 421-457) ---------------- *)
Returned(raised, v, tier, cf, client, trace) ==
    [raised |-> raised, v |-> v, tier |-> tier, cache_file |-> cf,
     supabase_client |-> client, trace |-> trace]

\* Priority 4 and the last resort (lines 449-457).
after_expired(expired_cache, cf, client, tr) ==
    IF Truthy(expired_cache)
    THEN Returned(FALSE, expired_cache.v, "expired", cf, client, tr)
    ELSE Returned(FALSE, <<>>, "empty", cf, client, tr)

\* The live fetch tried a second time when it gave nothing.
after_live_retried(fresh_data, client, tr) ==
    IF ~fresh_data.raised /\ fresh_data.v # <<>>
    THEN Returned(FALSE, fresh_data.v, "live", fresh_data.cache_file, client,
                  tr \o <<"fetch_all_players_live">> \o fresh_data.trace)
    ELSE after_expired(get_expired_cache(fresh_data.cache_file),
                       fresh_data.cache_file, client,
                       tr \o <<"fetch_all_players_live">> \o fresh_data.trace
                          \o <<"fetch_all_players_live">> \o fresh_data.trace
                          \o <<"get_expired_cache">>)

\* Lines 444-457, fresh_data being what fetch_all_players_live returned or
\* raised into the except clause of line 446.
after_live(fresh_data, client, tr) ==
    IF ~fresh_data.raised /\ fresh_data.v # <<>>
    THEN Returned(FALSE, fresh_data.v, "live", fresh_data.cache_file, client,
                  tr \o <<"fetch_all_players_live">> \o fresh_data.trace)
    ELSE after_expired(get_expired_cache(fresh_data.cache_file),
                       fresh_data.cache_file, client,
                       tr \o <<"fetch_all_players_live">> \o fresh_data.trace
                          \o <<"get_expired_cache">>)

\* Step 2 testing "is not None" where the code tests for truth: a fresh
\* snapshot holding no player is served.
after_cached_serves_empty(cached, up, cf, t, client, tr) ==
    IF cached.raised THEN Returned(TRUE, <<>>, "raised", cf, client, tr)
    ELSE IF cached.v.some THEN Returned(FALSE, cached.v.v, "cache", cf, client, tr)
    ELSE after_live(fetch_all_players_live(up, cf, t), client, tr)

\* Lines 435-457, cached being what get_cached_players returned or raised.
after_cached(cached, up, cf, t, client, tr) ==
    IF cached.raised THEN Returned(TRUE, <<>>, "raised", cf, client, tr)
    ELSE IF Truthy(cached.v) THEN Returned(FALSE, cached.v.v, "cache", cf, client, tr)
    ELSE after_live(fetch_all_players_live(up, cf, t), client, tr)

\* The first two priorities swapped: a fresh snapshot is served ahead of the store.
after_supabase_cache_first(supabase_players, up, cf, t, client) ==
    IF Truthy(get_cached_players(cf, t).v)
    THEN Returned(FALSE, get_cached_players(cf, t).v.v, "cache", cf, client,
                  <<"get_players_from_supabase", "get_cached_players">>)
    ELSE IF Truthy(supabase_players)
    THEN Returned(FALSE, supabase_players.v, "supabase", cf, client,
                  <<"get_players_from_supabase">>)
    ELSE after_live(fetch_all_players_live(up, cf, t), client,
                    <<"get_players_from_supabase", "get_cached_players">>)

\* Lines 431-457, supabase_players being what get_players_from_supabase returned.
after_supabase(supabase_players, up, cf, t, client) ==
    IF Truthy(supabase_players)
    THEN Returned(FALSE, supabase_players.v, "supabase", cf, client,
                  <<"get_players_from_supabase">>)
    ELSE after_cached(get_cached_players(cf, t), up, cf, t, client,
                      <<"get_players_from_supabase", "get_cached_players">>)

\* get_all_players with the force_refresh test missing.
get_all_players_ignores_force(force_refresh, db, up, client, table, cf, t) ==
    after_supabase(get_players_from_supabase(client, table, db), up, cf, t,
                   get_supabase_client(client, db.client_ok))

get_all_players(force_refresh, db, up, client, table, cf, t) ==
    IF ~force_refresh
    THEN after_supabase(get_players_from_supabase(client, table, db), up, cf, t,
                        get_supabase_client(client, db.client_ok))
    ELSE after_live(fetch_all_players_live(up, cf, t), client, <<>>)

(* ------------------------------- inputs -------------------------------- *)
\* Rows of LeagueDashPlayerStats: 30.1, 18.4 and 9.2 points per game.
RawRows ==
    { [PLAYER_ID |-> 1, GP |-> 60, PTS |-> 301, REB |-> 52, AST |-> 61,
       STL |-> 12, BLK |-> 3, FG_PCT |-> 478],
      [PLAYER_ID |-> 2, GP |-> 45, PTS |-> 184, REB |-> 105, AST |-> 21,
       STL |-> 8, BLK |-> 15, FG_PCT |-> 552],
      [PLAYER_ID |-> 3, GP |-> 18, PTS |-> 92, REB |-> 31, AST |-> 35,
       STL |-> 5, BLK |-> 2, FG_PCT |-> 1000] }

DistinctIds(rows) ==
    \A i, j \in 1..Len(rows) : i # j => rows[i].PLAYER_ID # rows[j].PLAYER_ID

\* What the bulk endpoint may return: any order, no player twice.
LeagueData ==
    UNION { { rows \in [1..n -> RawRows] : DistinctIds(rows) } : n \in 0..MaxRows }

\* What PlayerIndex may return (player_id -> POSITION); the last one holds a
\* code with two hyphens.
PositionMaps ==
    { (1 :> <<"G">>) @@ (2 :> <<"F", "-", "C">>),
      (1 :> <<"G", "-", "F">>) @@ (2 :> <<"C">>) @@ (3 :> <<"F">>),
      (1 :> <<"G", "-", "F", "-", "C">>) }

\* Contents of cached_players as the sync scripts leave it
\* (scripts/sync_to_supabase.py, scripts/fetch_nba_data.py), in the order the
\* select returns them.
TableData ==
    { <<>>,
      << [player_id |-> 2, position |-> "PF",
          season_stats |-> [gp |-> 45, pts |-> 184, reb |-> 105, rating |-> 99]],
         [player_id |-> 1, position |-> "PG",
          season_stats |-> [gp |-> 60, pts |-> 301, reb |-> 52, rating |-> 99]] >>,
      << [player_id |-> 3, season_stats |-> <<>>],
         [player_id |-> 2, position |-> "PF",
          season_stats |-> [gp |-> 45, pts |-> 184, reb |-> 105, rating |-> 99]] >>,
      << [full_name |-> "no id", position |-> "C"] >> }

NotConsulted == [client_ok |-> FALSE, select_ok |-> FALSE]

\* What the store may do when get_players_from_supabase runs.
DbOutcomes(force_refresh, client) ==
    IF force_refresh THEN {NotConsulted}
    ELSE (IF client THEN {} ELSE {NotConsulted})
         \cup { [client_ok |-> TRUE, select_ok |-> ok] : ok \in BOOLEAN }

NoUpstream == [import_ok |-> FALSE, index |-> Raise, league |-> Raise, save |-> "ok"]

IndexOutcomes == {Raise} \cup { Ok(m) : m \in PositionMaps }

\* What the upstream provider and the file system may do during a live fetch.
UpOutcomes ==
    {NoUpstream}
    \cup { [import_ok |-> TRUE, index |-> i, league |-> Raise, save |-> "ok"] :
             i \in IndexOutcomes }
    \cup { [import_ok |-> TRUE, index |-> i, league |-> Ok(l), save |-> sv] :
             i \in IndexOutcomes, l \in LeagueData, sv \in SaveOutcomes }

\* Whether a call with these store outcomes gets as far as the live fetch.
ReachesLive(force_refresh, db) ==
    \/ force_refresh
    \/ /\ ~Truthy(get_players_from_supabase(supabase_client, cached_players, db))
       /\ ~get_cached_players(cache_file, now).raised
       /\ ~Truthy(get_cached_players(cache_file, now).v)

(* ------------------------------- actions ------------------------------- *)
Idle == [op |-> "none"]

Init ==
    /\ now = 0
    /\ supabase_client = FALSE
    /\ cached_players = <<>>
    /\ cache_file = Absent
    /\ ret = Idle
    /\ journey_players = <<>>
    /\ journey_cache_file = Absent
    /\ cache_bytes = <<>>
    /\ writers = <<>>
    /\ fn_in = Idle
    /\ fn_out = Idle

\* GET /players: get_all_players(force_refresh) runs to its return.  ret keeps
\* what the call was given (the clock, the table and the snapshot it found,
\* what the store and the provider did) beside what it returned, until the
\* handler has answered.
GetAllPlayers ==
    /\ ret = Idle
    /\ \E force_refresh \in BOOLEAN :
       \E db \in DbOutcomes(force_refresh, supabase_client) :
       \E up \in (IF ReachesLive(force_refresh, db) THEN UpOutcomes ELSE {NoUpstream}) :
       \E r \in {get_all_players(force_refresh, db, up, supabase_client,
                                 cached_players, cache_file, now)} :
           /\ cache_file' = r.cache_file
           /\ supabase_client' = r.supabase_client
           /\ ret' = [op |-> "get_all_players", force_refresh |-> force_refresh,
                      db |-> db, up |-> up, at |-> now, table |-> cached_players,
                      client |-> supabase_client, cache_before |-> cache_file,
                      raised |-> r.raised, v |-> r.v, tier |-> r.tier,
                      trace |-> r.trace]
    /\ UNCHANGED <<jvars, wvars, now, cached_players, fn_in, fn_out>>

\* GET /players/refresh: fetch_all_players_live called directly.
RefreshPlayers ==
    /\ ret = Idle
    /\ \E up \in UpOutcomes :
       \E r \in {fetch_all_players_live(up, cache_file, now)} :
           /\ cache_file' = r.cache_file
           /\ ret' = [op |-> "refresh_players", up |-> up, at |-> now,
                      cache_before |-> cache_file, raised |-> r.raised,
                      v |-> r.v, trace |-> r.trace]
    /\ UNCHANGED <<jvars, wvars, now, supabase_client, cached_players, fn_in, fn_out>>

\* The handler answers and the request is over.
Respond ==
    /\ ret # Idle
    /\ ret' = Idle
    /\ UNCHANGED <<jvars, wvars, now, supabase_client, cached_players, cache_file, fn_in, fn_out>>

\* Time passes between requests.
Tick ==
    /\ ret = Idle
    /\ now + HoursPerTick <= MaxNow
    /\ now' = now + HoursPerTick
    /\ UNCHANGED <<jvars, wvars, supabase_client, cached_players, cache_file, ret, fn_in, fn_out>>

\* A sync script replaces the contents of cached_players.
SyncToSupabase ==
    /\ ret = Idle
    /\ \E data \in TableData :
          cached_players' = data
    /\ UNCHANGED <<jvars, wvars, now, supabase_client, cache_file, ret, fn_in, fn_out>>

Next == GetAllPlayers \/ RefreshPlayers \/ Respond \/ Tick \/ SyncToSupabase

Spec == Init /\ [][Next]_vars

(* --------------------- the pure functions, applied --------------------- *)
\* Stat lines for the rating: all-zero, ordinary and absurdly large cells.
RatingRows ==
    [PTS : {0, 5, 67, 301, 10000000}, REB : {0, 123, 5000000}, AST : {0, 118},
     STL : {0, 31}, BLK : {0, 40}, FG_PCT : {0, 478, 1000}]

InitRating ==
    /\ now = 0
    /\ supabase_client = FALSE
    /\ cached_players = <<>>
    /\ cache_file = Absent
    /\ ret = Idle
    /\ journey_players = <<>>
    /\ journey_cache_file = Absent
    /\ cache_bytes = <<>>
    /\ writers = <<>>
    /\ fn_in \in { [op |-> "rating", row |-> r] : r \in RatingRows }
    /\ fn_out = Idle

\* The rating of lines 244-247 computed for the row drawn.
Rate ==
    /\ fn_in.op = "rating"
    /\ fn_out = Idle
    /\ fn_out' = [op |-> "rating", v |-> rating(fn_in.row)]
    /\ UNCHANGED <<jvars, wvars, now, supabase_client, cached_players, cache_file, ret, fn_in>>

SpecRating == InitRating /\ [][Rate]_vars

\* A raw code is up to MaxParts components joined by hyphens.
Components == { <<>>, <<"C">>, <<"F">>, <<"G">> }

RECURSIVE Join(_)
Join(parts) ==
    IF Len(parts) = 1 THEN parts[1]
    ELSE parts[1] \o <<"-">> \o Join(Tail(parts))

\* Codes in lower case, padded, or not a position at all.
OtherCodes ==
    { <<"c">>, <<" ", "g", " ">>, <<"f", "-", "c">>, <<"c", "-", "f", " ">>,
      <<"X">>, <<"X", "-", "F">>, <<"C", " ", "-", "F">> }

RawCodes ==
    { Join(ps) : ps \in UNION { [1..k -> Components] : k \in 1..MaxParts } }
    \cup OtherCodes

\* Stat lines around every threshold of the normaliser, and the absent one.
StatLines ==
    { <<>> }
    \cup [pts : {100, 150, 160, 180, 250},
          reb : {30, 50, 60, 70, 80, 90, 100, 110},
          ast : {10, 20, 25, 30, 35, 40, 45, 50, 55},
          blk : {5, 10, 15}]

InitNormalize ==
    /\ now = 0
    /\ supabase_client = FALSE
    /\ cached_players = <<>>
    /\ cache_file = Absent
    /\ ret = Idle
    /\ journey_players = <<>>
    /\ journey_cache_file = Absent
    /\ cache_bytes = <<>>
    /\ writers = <<>>
    /\ fn_in \in { [op |-> "normalize_position", pos |-> c, stats |-> st] :
                     c \in RawCodes, st \in StatLines }
    /\ fn_out = Idle

\* normalize_position applied to the code and stat line drawn.
Normalize ==
    /\ fn_in.op = "normalize_position"
    /\ fn_out = Idle
    /\ \E r \in {normalize_position(fn_in.pos, fn_in.stats)} :
          fn_out' = [op |-> "normalize_position", raised |-> r.raised,
                     v |-> IF r.raised THEN "ValueError" ELSE r.v]
    /\ UNCHANGED <<jvars, wvars, now, supabase_client, cached_players, cache_file, ret, fn_in>>

SpecNormalize == InitNormalize /\ [][Normalize]_vars

(* ---------------- journey reconstruction (lines 541-611) --------------- *)
MaxCareerRows == 5

\* TEAM_ID_TO_ABBR, lines 541-558 (the repeated keys of lines 553-557 give the
\* same values again).
TEAM_ID_TO_ABBR ==
    (1610612737 :> "ATL") @@ (1610612738 :> "BOS") @@ (1610612739 :> "CLE") @@
    (1610612740 :> "NOP") @@ (1610612741 :> "CHI") @@ (1610612742 :> "DAL") @@
    (1610612743 :> "DEN") @@ (1610612744 :> "GSW") @@ (1610612745 :> "HOU") @@
    (1610612746 :> "LAC") @@ (1610612747 :> "LAL") @@ (1610612748 :> "MIA") @@
    (1610612749 :> "MIL") @@ (1610612750 :> "MIN") @@ (1610612751 :> "BKN") @@
    (1610612752 :> "NYK") @@ (1610612753 :> "ORL") @@ (1610612754 :> "IND") @@
    (1610612755 :> "PHI") @@ (1610612756 :> "PHX") @@ (1610612757 :> "POR") @@
    (1610612758 :> "SAC") @@ (1610612759 :> "SAS") @@ (1610612760 :> "OKC") @@
    (1610612761 :> "TOR") @@ (1610612762 :> "UTA") @@ (1610612763 :> "MEM") @@
    (1610612764 :> "WAS") @@ (1610612765 :> "DET") @@ (1610612766 :> "CHA")

\* Lines 581-586: the abbreviation looked up by TEAM_ID, and the row's own
\* TEAM_ABBREVIATION column only when the lookup gives nothing.
team_abbr_of(row) ==
    IF row.TEAM_ID \in DOMAIN TEAM_ID_TO_ABBR THEN TEAM_ID_TO_ABBR[row.TEAM_ID]
    ELSE Get(row, "TEAM_ABBREVIATION", "")

\* The abbreviation left as the row gives it.
historical_kept(team_abbr) == team_abbr

\* Lines 593-602.
historical(team_abbr) ==
    CASE team_abbr = "NJN" -> "BKN"
      [] team_abbr = "SEA" -> "OKC"
      [] team_abbr = "VAN" -> "MEM"
      [] team_abbr \in {"NOH", "NOK"} -> "NOP"
      [] team_abbr = "CHH" -> "CHA"
      [] OTHER -> team_abbr

\* Every team appended, equal to the last one or not.
appended_team_always(teams, team_abbr) ==
    IF team_abbr # "" THEN Append(teams, team_abbr) ELSE teams

\* Lines 604-605.
appended_team(teams, team_abbr) ==
    IF team_abbr # "" /\ (teams = <<>> \/ teams[Len(teams)] # team_abbr)
    THEN Append(teams, team_abbr)
    ELSE teams

\* One pass of the loop body, lines 581-605; "TOT" is skipped at line 589.
history_step(teams, team_abbr) ==
    IF team_abbr = "TOT" THEN teams
    ELSE appended_team(teams, historical(team_abbr))

\* The loop of lines 580-605 over the rows from index i on.
RECURSIVE history_loop(_, _, _)
history_loop(rows, i, teams) ==
    IF i > Len(rows) THEN teams
    ELSE history_loop(rows, i + 1, history_step(teams, team_abbr_of(rows[i])))

History(v, trace) == [v |-> v, trace |-> trace]

\* The career call made without the time.sleep(0.6) of line 570.
get_player_team_history_no_sleep(career) ==
    IF ~career.import_ok THEN History(<<>>, <<>>)
    ELSE IF career.frame.raised THEN History(<<>>, <<"PlayerCareerStats">>)
    ELSE History(history_loop(career.frame.v, 1, <<>>), <<"PlayerCareerStats">>)

\* get_player_team_history: career says whether the import works and what
\* PlayerCareerStats(...).get_data_frames()[0] gives (rows, or an exception).
\* Every exception ends at line 611 with [].
get_player_team_history(career) ==
    IF ~career.import_ok THEN History(<<>>, <<>>)
    ELSE IF career.frame.raised THEN History(<<>>, <<"sleep", "PlayerCareerStats">>)
    ELSE History(history_loop(career.frame.v, 1, <<>>),
                 <<"sleep", "PlayerCareerStats">>)

CareerRow(id, abbr) == [TEAM_ID |-> id, TEAM_ABBREVIATION |-> abbr]

\* Career rows as the provider sends them, in three groups: current teams
\* with combined-stats rows (TEAM_ID 0 or a team's id, or no abbreviation
\* column at all), the renamed Nets and Sonics, and the other renamed
\* franchises under ids the table does not hold.
CareerRowGroups ==
    { { CareerRow(1610612737, "ATL"), CareerRow(1610612738, "BOS"),
        CareerRow(0, "TOT"), CareerRow(1610612737, "TOT"), [TEAM_ID |-> 0] },
      { CareerRow(1610612751, "NJN"), CareerRow(0, "NJN"),
        CareerRow(1610612751, "BKN"), CareerRow(0, "SEA"),
        CareerRow(1610612760, "OKC") },
      { CareerRow(0, "VAN"), CareerRow(0, "NOH"), CareerRow(0, "NOK"),
        CareerRow(0, "CHH"), CareerRow(1610612740, "NOP") } }

CareerFrames ==
    UNION { UNION { [1..n -> g] : n \in 0..MaxCareerRows } : g \in CareerRowGroups }

Careers ==
    { [import_ok |-> FALSE, frame |-> Raise], [import_ok |-> TRUE, frame |-> Raise] }
    \cup { [import_ok |-> TRUE, frame |-> Ok(rows)] : rows \in CareerFrames }

InitHistory ==
    /\ now = 0
    /\ supabase_client = FALSE
    /\ cached_players = <<>>
    /\ cache_file = Absent
    /\ ret = Idle
    /\ journey_players = <<>>
    /\ journey_cache_file = Absent
    /\ cache_bytes = <<>>
    /\ writers = <<>>
    /\ fn_in \in { [op |-> "get_player_team_history", career |-> c] : c \in Careers }
    /\ fn_out = Idle

\* get_player_team_history applied to the career drawn.
TeamHistory ==
    /\ fn_in.op = "get_player_team_history"
    /\ fn_out = Idle
    /\ fn_out' = [op |-> "get_player_team_history",
                  v |-> get_player_team_history(fn_in.career).v]
    /\ UNCHANGED <<jvars, wvars, now, supabase_client, cached_players, cache_file, ret, fn_in>>

SpecHistory == InitHistory /\ [][TeamHistory]_vars

(* ---------------- journey players (lines 82-137, 614-699) -------------- *)
MaxJourneyTicks == 2

\* Half the week the journey snapshot stays fresh for, in hours.
JourneyTick == (CACHE_DURATION_HOURS * 7) \div 2

\* Lines 97-102: one row of journey_players as a journey record.  The select
\* returns every column, so "teams" is there, null (NoneVal) or a list.
journey_row(row) ==
    IF "player_id" \notin DOMAIN row THEN Raise
    ELSE Ok([id |-> row.player_id, teams |-> Get(row, "teams", Some(<<>>))])

RECURSIVE journey_rows(_)
journey_rows(rows) ==
    IF rows = <<>> THEN Ok(<<>>)
    ELSE Appended(journey_row(Head(rows)), journey_rows(Tail(rows)))

SomeOnReturn(r) == IF r.raised THEN Raise ELSE Ok(Some(r.v))

\* The try block of get_journey_players_from_supabase (lines 91-105).
journey_select_body(table, select_ok) ==
    IF ~select_ok THEN Raise
    ELSE IF table # <<>> THEN SomeOnReturn(journey_rows(table))
    ELSE Ok(NoneVal)

\* client is what get_supabase_client() returned at line 87.
get_journey_players_from_supabase(client, table, select_ok) ==
    IF ~client THEN NoneVal
    ELSE NoneOnRaise(journey_select_body(table, select_ok)).v

\* upsert(rows, on_conflict="player_id"): a row replaces the stored row with
\* its player_id, or is added.
upsert_row(table, row) ==
    IF \E i \in 1..Len(table) : Get(table[i], "player_id", 0) = row.player_id
    THEN [i \in 1..Len(table) |->
            IF Get(table[i], "player_id", 0) = row.player_id THEN row ELSE table[i]]
    ELSE Append(table, row)

\* The rows lo..hi upserted one after the other, first half then second half.
RECURSIVE upsert_range(_, _, _, _)
upsert_range(table, rows, lo, hi) ==
    IF lo > hi THEN table
    ELSE IF lo = hi THEN upsert_row(table, rows[lo])
    ELSE CHOOSE after \in { upsert_range(half, rows, ((lo + hi) \div 2) + 1, hi) :
                            half \in { upsert_range(table, rows, lo, (lo + hi) \div 2) } } : TRUE

upsert(table, rows) == upsert_range(table, rows, 1, Len(rows))

\* Lines 121-129.
journey_upsert_rows(players) ==
    [i \in 1..Len(players) |-> [player_id |-> players[i].id, teams |-> players[i].teams]]

\* save_journey_players_to_supabase: the new content of journey_players.
save_journey_players_to_supabase(client, players, table, upsert_ok) ==
    IF ~client \/ players = <<>> THEN table
    ELSE IF upsert_ok THEN upsert(table, journey_upsert_rows(players))
    ELSE table

\* The list comprehension keeping every player.
min_teams_filter_keeps_all(players, min_teams) ==
    IF \E i \in 1..Len(players) : ~players[i].teams.some THEN Raise
    ELSE Ok(players)

\* [p for p in players if len(p.get("teams", [])) >= min_teams]: len(None)
\* raises TypeError.
min_teams_filter(players, min_teams) ==
    IF \E i \in 1..Len(players) : ~players[i].teams.some THEN Raise
    ELSE Ok(SelectSeq(players, LAMBDA p : Len(p.teams.v) >= min_teams))

\* random.shuffle, the permutation drawn being the rotation by k.
shuffle(l, k) ==
    IF l = <<>> THEN l ELSE [i \in 1..Len(l) |-> l[((i - 1 + k) % Len(l)) + 1]]

\* l[:count]
take(l, count) ==
    IF count >= 0 THEN SubSeq(l, 1, Min2(count, Len(l)))
    ELSE SubSeq(l, 1, Max2(0, Len(l) + count))

\* sorted(all_players, key=lambda x: x.get("gp", 0), reverse=True): stable,
\* so a player's place is one more than the number of players with more games
\* played, or as many and earlier in the list.
rank_by_gp(players) ==
    [i \in 1..Len(players) |->
        Cardinality({ j \in 1..Len(players) :
                        \/ players[j].gp > players[i].gp
                        \/ players[j].gp = players[i].gp /\ j < i }) + 1]

placed(players, ranks) ==
    [r \in 1..Len(players) |-> players[CHOOSE i \in 1..Len(players) : ranks[i] = r]]

sort_by_gp(players) == placed(players, rank_by_gp(players))

\* What get_journey_players returns and leaves behind.  found is the list
\* before the shuffle and the cut; all carries the roster snapshot and the
\* client as the call leaves them.
JourneyReturned(raised, v, tier, found, jtable, jfile, all, trace, probed) ==
    [raised |-> raised, v |-> v, tier |-> tier, found |-> found,
     journey_players |-> jtable, journey_cache_file |-> jfile,
     cache_file |-> all.cache_file, supabase_client |-> all.supabase_client,
     trace |-> trace, probed |-> probed]

\* random.shuffle(found); return found[:count]
journey_finish(found, tier, ctx, jtable, jfile, all, trace, probed) ==
    JourneyReturned(FALSE, take(shuffle(found, ctx.shuffle), ctx.count), tier,
                    found, jtable, jfile, all, Append(trace, "shuffle"), probed)

\* Lines 683-693: the new content of the journey snapshot.
journey_cache_write(players, jfile, t, outcome) ==
    CASE outcome = "ok" -> Doc(t, players)
      [] outcome = "open_fails" -> jfile
      [] outcome = "dump_fails" -> Corrupt

\* The list shuffled and cut ahead of the two saves.
journey_saved_after_cut(lp, all, ctx) ==
    journey_finish(take(shuffle(lp.found, ctx.shuffle), ctx.count), "upstream", ctx,
        save_journey_players_to_supabase(all.supabase_client,
                                         take(shuffle(lp.found, ctx.shuffle), ctx.count),
                                         ctx.journey_players, ctx.store = "up"),
        journey_cache_write(take(shuffle(lp.found, ctx.shuffle), ctx.count),
                            ctx.journey_cache_file, ctx.t, ctx.jsave),
        all,
        lp.trace \o <<"journey_cache_write", "save_journey_players_to_supabase">>,
        lp.probed)

\* Lines 682-699, lp being what the loop left.
journey_saved(lp, all, ctx) ==
    journey_finish(lp.found, "upstream", ctx,
        save_journey_players_to_supabase(all.supabase_client, lp.found,
                                         ctx.journey_players, ctx.store = "up"),
        journey_cache_write(lp.found, ctx.journey_cache_file, ctx.t, ctx.jsave),
        all,
        lp.trace \o <<"journey_cache_write", "save_journey_players_to_supabase">>,
        lp.probed)

\* The state of the loop of lines 660-680: found is journey_players, probed
\* the ids get_player_team_history was called for, broke whether the break of
\* line 678 was taken.
LoopState(found, trace, probed, broke) ==
    [found |-> found, trace |-> trace, probed |-> probed, broke |-> broke]

\* The loop without the break of lines 677-678.
journey_next_no_break(found, trace, probed, ctx) ==
    LoopState(found, Append(trace, "sleep(0.3)"), probed, FALSE)

\* Lines 677-680: break at count * 2, otherwise time.sleep(0.3) and go on.
journey_next(found, trace, probed, ctx) ==
    IF Len(found) >= ctx.count * 2 THEN LoopState(found, trace, probed, TRUE)
    ELSE LoopState(found, Append(trace, "sleep(0.3)"), probed, FALSE)

\* Lines 666-675, team_history being what get_player_team_history returned.
journey_probe(player, team_history, st, ctx) ==
    journey_next(
        IF Len(team_history.v) >= ctx.min_teams
        THEN Append(st.found, [id |-> player.id, teams |-> Some(team_history.v)])
        ELSE st.found,
        st.trace \o team_history.trace, Append(st.probed, player.id), ctx)

\* One pass through the loop body, which is not entered after the break.
journey_step(st, player, ctx) ==
    IF st.broke THEN st
    ELSE journey_probe(player, get_player_team_history(ctx.careers[player.id]), st, ctx)

\* The passes for candidates lo to hi, in order, from state st: those of the
\* first half, then those of the second.
RECURSIVE journey_loop(_, _, _, _, _)
journey_loop(players, lo, hi, st, ctx) ==
    IF lo > hi THEN st
    ELSE IF lo = hi THEN journey_step(st, players[lo], ctx)
    ELSE CHOOSE after \in { journey_loop(players, ((lo + hi) \div 2) + 1, hi, half, ctx) :
                            half \in { journey_loop(players, lo, (lo + hi) \div 2, st, ctx) } } : TRUE

\* The candidates of line 660.
candidates(all_players) == take(sort_by_gp(all_players), 100)

\* The loop started: journey_players = [].
journey_loop_from(players, tr, ctx) ==
    journey_loop(players, 1, Len(players), LoopState(<<>>, tr, <<>>, FALSE), ctx)

\* Lines 653-699, all being what get_all_players() returned.
journey_cold(all, ctx, tr) ==
    journey_saved(
        journey_loop_from(candidates(all.v),
                          tr \o <<"get_all_players">> \o all.trace, ctx),
        all, ctx)

\* The try block of lines 634-645: None when the snapshot is absent or a
\* week old, the filtered list when it is fresh.
journey_cache_body(jfile, t, min_teams) ==
    IF jfile.kind = "absent" THEN Ok(NoneVal)
    ELSE IF jfile.kind = "corrupt" THEN Raise
    ELSE IF t - jfile.timestamp < CACHE_DURATION_HOURS * 7
    THEN SomeOnReturn(min_teams_filter(jfile.players, min_teams))
    ELSE Ok(NoneVal)

\* Lines 631-699, cached being what the try block returned or raised into
\* the except clause of line 646; client is the client after line 624.
after_journey_cache(cached, ctx, client, tr) ==
    IF ~cached.raised /\ cached.v.some
    THEN journey_finish(cached.v.v, "cache", ctx, ctx.journey_players,
                        ctx.journey_cache_file,
                        [cache_file |-> ctx.cache_file, supabase_client |-> client],
                        tr, <<>>)
    ELSE journey_cold(
            get_all_players(FALSE,
                            [client_ok |-> ctx.store # "down", select_ok |-> ctx.store = "up"],
                            ctx.up, client, ctx.cached_players, ctx.cache_file, ctx.t),
            ctx, tr)

\* Lines 626-629, filtered being the list comprehension of line 626, which is
\* under no try.
after_journey_filter(filtered, ctx, client) ==
    IF filtered.raised
    THEN JourneyReturned(TRUE, <<>>, "raised", <<>>, ctx.journey_players,
                         ctx.journey_cache_file,
                         [cache_file |-> ctx.cache_file, supabase_client |-> client],
                         <<"get_journey_players_from_supabase">>, <<>>)
    ELSE IF Len(filtered.v) >= 10
    THEN journey_finish(filtered.v, "supabase", ctx, ctx.journey_players,
                        ctx.journey_cache_file,
                        [cache_file |-> ctx.cache_file, supabase_client |-> client],
                        <<"get_journey_players_from_supabase">>, <<>>)
    ELSE after_journey_cache(
            journey_cache_body(ctx.journey_cache_file, ctx.t, ctx.min_teams), ctx, client,
            <<"get_journey_players_from_supabase", "journey_cache_read">>)

\* Lines 624-699, supabase_players being what the store tier returned.
after_journey_supabase(supabase_players, ctx, client) ==
    IF Truthy(supabase_players) /\ Len(supabase_players.v) >= 10
    THEN after_journey_filter(min_teams_filter(supabase_players.v, ctx.min_teams),
                              ctx, client)
    ELSE after_journey_cache(
            journey_cache_body(ctx.journey_cache_file, ctx.t, ctx.min_teams), ctx, client,
            <<"get_journey_players_from_supabase", "journey_cache_read">>)

journey_with_client(ctx, client) ==
    after_journey_supabase(
        get_journey_players_from_supabase(client, ctx.journey_players, ctx.store = "up"),
        ctx, client)

\* get_journey_players(count, min_teams).  ctx holds the arguments, the state
\* the call finds (the clock t, the client, both tables, both snapshots) and
\* what its surroundings do: store is "down" (no client can be made),
\* "errors" (every request raises) or "up"; up is the provider during the
\* roster's live fetch, careers the provider's answer per player id, jsave
\* the file system when the journey snapshot is written, shuffle the
\* permutation drawn.
get_journey_players(ctx) ==
    journey_with_client(ctx, get_supabase_client(ctx.supabase_client, ctx.store # "down"))

Teams(n) == SubSeq(<<"ATL", "BOS", "CHI", "DAL", "DEN">>, 1, n)

StoredJourney(i, n) == [player_id |-> i, teams |-> Some(Teams(n))]

\* Contents of journey_players: empty; ten rows, half of them with two teams
\* and half with three; twelve rows with three to five teams; the twelve
\* with one row whose teams column is null; the twelve with one row that
\* has no player_id.
JourneyTableData ==
    { <<>>,
      [i \in 1..10 |-> StoredJourney(i, 2 + (i % 2))],
      [i \in 1..12 |-> StoredJourney(i, 3 + (i % 3))],
      [i \in 1..12 |-> IF i = 4 THEN [player_id |-> 4, teams |-> NoneVal]
                       ELSE StoredJourney(i, 3 + (i % 3))],
      [i \in 1..12 |-> IF i = 5 THEN [teams |-> Some(Teams(3))]
                       ELSE StoredJourney(i, 3 + (i % 3))] }

\* Contents of cached_players while journeys are asked for: players 2 and 1.
JourneyRosterTable ==
    << [player_id |-> 2, position |-> "PF",
        season_stats |-> [gp |-> 45, pts |-> 184, reb |-> 105, rating |-> 99]],
       [player_id |-> 1, position |-> "PG",
        season_stats |-> [gp |-> 60, pts |-> 301, reb |-> 52, rating |-> 99]] >>

\* The provider during the roster's live fetch: unreachable, or answering
\* with players 2 and 1 while the roster snapshot cannot be opened for writing.
JourneyUps ==
    { NoUpstream,
      [import_ok |-> TRUE, index |-> Ok((1 :> <<"G">>) @@ (2 :> <<"F", "-", "C">>)),
       league |-> Ok(<< [PLAYER_ID |-> 2, GP |-> 45, PTS |-> 184, REB |-> 105,
                         AST |-> 21, STL |-> 8, BLK |-> 15, FG_PCT |-> 552],
                        [PLAYER_ID |-> 1, GP |-> 60, PTS |-> 301, REB |-> 52,
                         AST |-> 61, STL |-> 12, BLK |-> 3, FG_PCT |-> 478] >>),
       save |-> "open_fails"] }

RosterIds == {1, 2}

\* The career rows the provider holds: player 1 went through three teams
\* (behind a combined-stats row and a renamed franchise), player 2 through two.
CareerData ==
    (1 :> <<CareerRow(1610612737, "ATL"), CareerRow(0, "TOT"),
            CareerRow(1610612738, "BOS"), CareerRow(0, "NJN"),
            CareerRow(1610612751, "BKN")>>) @@
    (2 :> <<CareerRow(1610612737, "ATL"), CareerRow(1610612738, "BOS")>>)

\* What PlayerCareerStats answers per player when the calls for the players
\* in failing raise.
JourneyCareers(failing) ==
    [i \in RosterIds |->
        [import_ok |-> TRUE,
         frame |-> IF i \in failing THEN Raise ELSE Ok(CareerData[i])]]

JourneyCounts == {0, 1}
JourneyMinTeams == {2, 3}
Shuffles == {0, 1}

\* The store as one request finds it; a client once made stays.
StoreStates(client) == (IF client THEN {} ELSE {"down"}) \cup {"errors", "up"}

NoCareers == JourneyCareers(RosterIds)

\* The call's context with the provider unreachable and the file system sound.
JourneyCtx(count, min_teams, store, k) ==
    [count |-> count, min_teams |-> min_teams, store |-> store, shuffle |-> k,
     up |-> NoUpstream, careers |-> NoCareers, jsave |-> "ok",
     t |-> now, supabase_client |-> supabase_client,
     cached_players |-> cached_players, cache_file |-> cache_file,
     journey_players |-> journey_players, journey_cache_file |-> journey_cache_file]

\* The contexts a call may run in: the provider and the file system matter
\* only to a call that gets as far as the cold reconstruction.
JourneyCtxs(ctx) ==
    IF get_journey_players(ctx).tier # "upstream" THEN {ctx}
    ELSE { [ctx EXCEPT !.up = up, !.careers = JourneyCareers(failing), !.jsave = sv] :
             up \in JourneyUps, failing \in SUBSET RosterIds, sv \in SaveOutcomes }

InitJourney ==
    /\ now = 0
    /\ supabase_client = FALSE
    /\ cached_players = JourneyRosterTable
    /\ cache_file = Absent
    /\ ret = Idle
    /\ journey_players \in JourneyTableData
    /\ journey_cache_file = Absent
    /\ cache_bytes = <<>>
    /\ writers = <<>>
    /\ fn_in = Idle
    /\ fn_out = Idle

\* GET /players/journey/players: get_journey_players(count, min_teams) runs
\* to its return (or to the exception it lets through).
GetJourneyPlayers ==
    /\ ret = Idle
    /\ \E count \in JourneyCounts, min_teams \in JourneyMinTeams, k \in Shuffles :
       \E store \in StoreStates(supabase_client) :
       \E ctx \in JourneyCtxs(JourneyCtx(count, min_teams, store, k)) :
       \E r \in {get_journey_players(ctx)} :
           /\ journey_players' = r.journey_players
           /\ journey_cache_file' = r.journey_cache_file
           /\ cache_file' = r.cache_file
           /\ supabase_client' = r.supabase_client
           /\ ret' = [op |-> "get_journey_players", count |-> count,
                      min_teams |-> min_teams, store |-> store, at |-> now,
                      up |-> ctx.up, jsave |-> ctx.jsave,
                      careers |-> [i \in { r.probed[j] : j \in 1..Len(r.probed) } |->
                                     ctx.careers[i]],
                      table_before |-> journey_players,
                      file_before |-> journey_cache_file,
                      raised |-> r.raised, v |-> r.v, tier |-> r.tier,
                      found |-> r.found, trace |-> r.trace, probed |-> r.probed]
    /\ UNCHANGED <<wvars, now, cached_players, fn_in, fn_out>>

\* Half a week passes between requests.
TickJourney ==
    /\ ret = Idle
    /\ now + JourneyTick <= MaxJourneyTicks * JourneyTick
    /\ now' = now + JourneyTick
    /\ UNCHANGED <<jvars, wvars, supabase_client, cached_players, cache_file, ret,
                   fn_in, fn_out>>

NextJourney == GetJourneyPlayers \/ Respond \/ TickJourney

SpecJourney == InitJourney /\ [][NextJourney]_vars

(* ------------- the cold reconstruction alone (lines 649-699) ----------- *)
\* A roster record of a player with a long career; games played are not in
\* the order of the ids and some are equal.
Veteran(i) == [id |-> i, gp |-> (i * 37) % 41, pts |-> 100]

\* Rosters from none to more players than the loop looks at.
ColdSizes == {0, 3, 99, 100, 101, 102}

\* What PlayerCareerStats answers for player i: the three-team career for
\* odd ids, the two-team career for even ids, an error for the ids of
\* failing.
ColdCareers(n, failing) ==
    [i \in 1..n |->
        [import_ok |-> TRUE,
         frame |-> IF i \in failing THEN Raise ELSE Ok(CareerData[2 - (i % 2)])]]

\* The calls that fail: none, those for every third player, all.
ColdFailing(n) == { {}, { i \in 1..n : i % 3 = 0 }, 1..n }

ColdCounts == {0, 1, 2, 30}

InitCold ==
    /\ now = 0
    /\ supabase_client = FALSE
    /\ cached_players = <<>>
    /\ cache_file = Absent
    /\ ret = Idle
    /\ journey_players = <<>>
    /\ journey_cache_file = Absent
    /\ cache_bytes = <<>>
    /\ writers = <<>>
    /\ fn_in \in { [op |-> "journey_cold",
                    all_players |-> [i \in 1..n |-> Veteran(i)],
                    careers |-> ColdCareers(n, failing),
                    count |-> count, min_teams |-> min_teams] :
                     n \in ColdSizes, failing \in ColdFailing(102),
                     count \in ColdCounts, min_teams \in JourneyMinTeams }
    /\ fn_out = Idle

\* Lines 649-699 run on the roster drawn, get_all_players having returned it
\* from the store.
ColdJourney ==
    /\ fn_in.op = "journey_cold"
    /\ fn_out = Idle
    /\ \E r \in {journey_cold(
                    [v |-> fn_in.all_players, cache_file |-> cache_file,
                     supabase_client |-> TRUE, trace |-> <<"get_players_from_supabase">>],
                    [count |-> fn_in.count, min_teams |-> fn_in.min_teams,
                     store |-> "up", shuffle |-> 0, up |-> NoUpstream,
                     careers |-> fn_in.careers, jsave |-> "ok", t |-> now,
                     supabase_client |-> TRUE, cached_players |-> cached_players,
                     cache_file |-> cache_file, journey_players |-> journey_players,
                     journey_cache_file |-> journey_cache_file],
                    <<"get_journey_players_from_supabase", "journey_cache_read">>)} :
          /\ fn_out' = [op |-> "journey_cold", probed |-> r.probed, found |-> r.found,
                        v |-> r.v, calls |-> Cardinality({ i \in 1..Len(r.trace) :
                                                 r.trace[i] = "PlayerCareerStats" })]
          /\ journey_players' = r.journey_players
          /\ journey_cache_file' = r.journey_cache_file
    /\ UNCHANGED <<wvars, now, supabase_client, cached_players, cache_file, ret, fn_in>>

SpecCold == InitCold /\ [][ColdJourney]_vars

(* ------------- daily player (routers/players.py, 150-171) -------------- *)
\* hashlib.md5(today.encode()).hexdigest() for the dates modelled, as the 32
\* hexadecimal digits, most significant first.
MD5Hex ==
    ("2026-11-02" :> <<5, 14, 10, 14, 5, 8, 7, 6, 3, 13, 12, 11, 14, 2, 10, 0,
                       5, 8, 4, 10, 15, 10, 12, 0, 14, 15, 9, 1, 4, 1, 5, 10>>) @@
    ("2026-11-03" :> <<9, 2, 14, 15, 0, 3, 11, 0, 10, 5, 3, 12, 2, 0, 4, 9,
                       9, 11, 12, 13, 14, 2, 2, 15, 14, 0, 3, 4, 4, 0, 12, 5>>) @@
    ("2026-11-04" :> <<8, 2, 11, 10, 11, 4, 3, 11, 2, 12, 8, 8, 3, 9, 15, 13,
                       12, 6, 13, 7, 14, 7, 4, 1, 2, 4, 3, 3, 11, 10, 11, 12>>) @@
    ("2026-11-05" :> <<8, 0, 4, 13, 6, 0, 12, 4, 15, 9, 11, 12, 14, 13, 6, 10,
                       14, 13, 1, 10, 12, 3, 11, 11, 12, 5, 1, 3, 0, 6, 2, 2>>)

\* date.today().isoformat() on consecutive days.
DailyDates == <<"2026-11-02", "2026-11-03", "2026-11-04", "2026-11-05">>

\* int(hexdigest, 16) % n, digit by digit.
RECURSIVE HexMod(_, _, _, _)
HexMod(digits, i, acc, n) ==
    IF i > Len(digits) THEN acc
    ELSE HexMod(digits, i + 1, (acc * 16 + digits[i]) % n, n)

\* The calls of the handler answered so far, the last two of them.
DailyCalls == IF fn_out.op = "get_daily_player" THEN fn_out.calls ELSE <<>>

\* An index salted by the number of calls the process has answered.
player_index_salted(today, n) == (HexMod(MD5Hex[today], 1, 0, n) + Len(DailyCalls)) % n

\* Lines 162-164: hash_val % len(stars).
player_index(today, n) == HexMod(MD5Hex[today], 1, 0, n)

\* Line 158.
stars_of(all_players) ==
    SelectSeq(all_players, LAMBDA p : p.pts >= Tenths(15) /\ p.gp >= 20)

\* Lines 158-160, stars being the list of line 158.
stars_or_first_50(stars, all_players) ==
    IF stars = <<>> THEN SubSeq(all_players, 1, Min2(50, Len(all_players)))
    ELSE stars

\* Lines 162-170, stars being the pool.
daily_pick(stars, today, player_index_) ==
    Ok([player |-> stars[player_index_ + 1], date |-> today, index |-> player_index_])

\* get_daily_player, all_players being what get_all_players() returned; an
\* empty roster raises HTTPException(503).
get_daily_player(all_players, today) ==
    IF all_players = <<>> THEN Raise
    ELSE daily_pick(stars_or_first_50(stars_of(all_players), all_players), today,
                    player_index(today,
                        Len(stars_or_first_50(stars_of(all_players), all_players))))

\* Bench players, in descending order of points, none of them a star.
Bench(n) == [i \in 1..n |-> [id |-> 100 + i, pts |-> 140 - i, gp |-> 10 + i]]

\* Resolved rosters: none; three stars (one exactly at 15.0 points and 20
\* games) among near misses; 7, 50 and 60 players without a star.
DailyRosters ==
    { <<>>,
      << [id |-> 1, pts |-> 301, gp |-> 60], [id |-> 2, pts |-> 250, gp |-> 45],
         [id |-> 5, pts |-> 200, gp |-> 19], [id |-> 3, pts |-> 150, gp |-> 20],
         [id |-> 4, pts |-> 149, gp |-> 82] >>,
      Bench(7), Bench(50), Bench(60) }

InitDaily ==
    /\ now = 0
    /\ supabase_client = FALSE
    /\ cached_players = <<>>
    /\ cache_file = Absent
    /\ ret = Idle
    /\ journey_players = <<>>
    /\ journey_cache_file = Absent
    /\ cache_bytes = <<>>
    /\ writers = <<>>
    /\ fn_in \in { [op |-> "get_daily_player", day |-> 1, all_players |-> r] :
                     r \in DailyRosters }
    /\ fn_out = Idle

LastTwo(s) == IF Len(s) > 2 THEN SubSeq(s, Len(s) - 1, Len(s)) ELSE s

\* GET /players/daily answered for the roster resolved and today's date.
DailyPlayer ==
    /\ fn_in.op = "get_daily_player"
    /\ \E r \in {get_daily_player(fn_in.all_players, DailyDates[fn_in.day])} :
          fn_out' = [op |-> "get_daily_player",
                     calls |-> LastTwo(Append(DailyCalls,
                        [today |-> DailyDates[fn_in.day],
                         all_players |-> fn_in.all_players,
                         raised |-> r.raised,
                         v |-> IF r.raised THEN <<>> ELSE r.v]))]
    /\ UNCHANGED <<jvars, wvars, now, supabase_client, cached_players, cache_file, ret, fn_in>>

\* Midnight passes.
NewDay ==
    /\ fn_in.op = "get_daily_player"
    /\ fn_in.day < Len(DailyDates)
    /\ fn_in' = [fn_in EXCEPT !.day = @ + 1]
    /\ UNCHANGED <<jvars, wvars, now, supabase_client, cached_players, cache_file, ret, fn_out>>

\* The roster get_all_players resolves changes between two requests.
RosterChanges ==
    /\ fn_in.op = "get_daily_player"
    /\ \E r \in DailyRosters \ {fn_in.all_players} :
          fn_in' = [fn_in EXCEPT !.all_players = r]
    /\ UNCHANGED <<jvars, wvars, now, supabase_client, cached_players, cache_file, ret, fn_out>>

NextDaily == DailyPlayer \/ NewDay \/ RosterChanges

SpecDaily == InitDaily /\ [][NextDaily]_vars

(* ------------- the snapshot under two writers (lines 148-185) ---------- *)
\* CACHE_FILE is written by open(CACHE_FILE, "w") and json.dump: the open
\* truncates the file, and the buffered writer then hands the document to the
\* operating system block by block, each block at this writer's own offset.
\* A block is the document's opening with the timestamp and the count, one
\* player record, or the closing brackets.
HeadBlock(ts, count) == [k |-> "head", timestamp |-> ts, count |-> count]
PlayerBlock(p) == [k |-> "player", v |-> p]
TailBlock == [k |-> "tail"]
\* The zero bytes the file system puts where a write lands beyond the end.
HoleBlock == [k |-> "hole"]

\* json.dump(data, f, indent=2) of lines 173-181.
json_dump(ts, players) ==
    <<HeadBlock(ts, Len(players))>>
        \o [i \in 1..Len(players) |-> PlayerBlock(players[i])]
        \o <<TailBlock>>

\* json.load of line 155: an opening, player records and a closing, nothing
\* else, give the document; every other content raises.
json_load(bytes) ==
    IF /\ Len(bytes) >= 2
       /\ bytes[1].k = "head"
       /\ bytes[Len(bytes)].k = "tail"
       /\ \A i \in 2..(Len(bytes) - 1) : bytes[i].k = "player"
    THEN Doc(bytes[1].timestamp,
             [i \in 1..(Len(bytes) - 2) |-> bytes[i + 1].v])
    ELSE Corrupt

\* open(CACHE_FILE, "w"): the file emptied.
truncate(bytes) == <<>>

\* One block written at offset pos of a file that may have been cut short
\* since this writer's last block.
write_at(bytes, pos, block) ==
    [i \in 1..(IF Len(bytes) > pos THEN Len(bytes) ELSE pos + 1) |->
        IF i = pos + 1 THEN block
        ELSE IF i <= Len(bytes) THEN bytes[i]
        ELSE HoleBlock]

\* The two requests in flight.
Procs == {"a", "b"}

IdleWriter == [phase |-> "idle", players |-> <<>>, doc |-> <<>>, pos |-> 0]

\* What the bulk endpoint answers to one request and to the other: the same
\* two players, the two players with one figure changed, or one player.
ConcurrentAnswers ==
    { << [PLAYER_ID |-> 1, GP |-> 60, PTS |-> 301, REB |-> 52, AST |-> 61,
          STL |-> 12, BLK |-> 3, FG_PCT |-> 478],
         [PLAYER_ID |-> 2, GP |-> 45, PTS |-> 184, REB |-> 105, AST |-> 21,
          STL |-> 8, BLK |-> 15, FG_PCT |-> 552] >>,
      << [PLAYER_ID |-> 1, GP |-> 61, PTS |-> 303, REB |-> 52, AST |-> 61,
          STL |-> 12, BLK |-> 3, FG_PCT |-> 478],
         [PLAYER_ID |-> 2, GP |-> 45, PTS |-> 184, REB |-> 105, AST |-> 21,
          STL |-> 8, BLK |-> 15, FG_PCT |-> 552] >>,
      << [PLAYER_ID |-> 1, GP |-> 60, PTS |-> 301, REB |-> 52, AST |-> 61,
          STL |-> 12, BLK |-> 3, FG_PCT |-> 478] >> }

\* The roster fetch_all_players_live hands to save_to_cache (lines 234-282).
live_roster(rows) == sort_by_pts(build_players(rows, <<>>).v)

InitConcurrent ==
    /\ now = 0
    /\ supabase_client = FALSE
    /\ cached_players = <<>>
    /\ cache_file = Absent
    /\ ret = Idle
    /\ journey_players = <<>>
    /\ journey_cache_file = Absent
    /\ cache_bytes = <<>>
    /\ writers = [p \in Procs |-> IdleWriter]
    /\ fn_in = Idle
    /\ fn_out = Idle

\* A request's live fetch succeeds: the roster is built and sorted.
LiveFetched(p) ==
    /\ ret = Idle
    /\ writers[p].phase = "idle"
    /\ \E rows \in ConcurrentAnswers :
          writers' = [writers EXCEPT ![p] =
                        [phase |-> "fetched", players |-> live_roster(rows),
                         doc |-> <<>>, pos |-> 0]]
    /\ UNCHANGED <<jvars, now, supabase_client, cached_players, cache_file,
                   cache_bytes, ret, fn_in, fn_out>>

\* save_to_cache up to the open of line 180: the document is built with the
\* time of the call and the file is truncated.
OpenSnapshot(p) ==
    /\ ret = Idle
    /\ writers[p].phase = "fetched"
    /\ writers' = [writers EXCEPT ![p].phase = "open",
                                  ![p].doc = json_dump(now, writers[p].players)]
    /\ cache_bytes' = truncate(cache_bytes)
    /\ cache_file' = json_load(cache_bytes')
    /\ UNCHANGED <<jvars, now, supabase_client, cached_players, ret, fn_in, fn_out>>

\* One block of json.dump reaches the file.
WriteBlock(p) ==
    /\ ret = Idle
    /\ writers[p].phase = "open"
    /\ writers[p].pos < Len(writers[p].doc)
    /\ cache_bytes' = write_at(cache_bytes, writers[p].pos,
                               writers[p].doc[writers[p].pos + 1])
    /\ cache_file' = json_load(cache_bytes')
    /\ writers' = [writers EXCEPT ![p].pos = @ + 1]
    /\ UNCHANGED <<jvars, now, supabase_client, cached_players, ret, fn_in, fn_out>>

\* The with block ends: the file is closed and save_to_cache returns.
CloseSnapshot(p) ==
    /\ ret = Idle
    /\ writers[p].phase = "open"
    /\ writers[p].pos = Len(writers[p].doc)
    /\ writers' = [writers EXCEPT ![p].phase = "done"]
    /\ UNCHANGED <<jvars, now, supabase_client, cached_players, cache_file,
                   cache_bytes, ret, fn_in, fn_out>>

\* A third request reads the snapshot while the two write it.
ReadSnapshot ==
    /\ ret = Idle
    /\ cache_file # Absent
    /\ \E r \in {get_cached_players(cache_file, now)} :
          ret' = [op |-> "get_cached_players", v |-> r.v, raised |-> r.raised,
                  bytes |-> cache_bytes]
    /\ UNCHANGED <<jvars, wvars, now, supabase_client, cached_players, cache_file,
                   fn_in, fn_out>>

NextConcurrent ==
    \/ \E p \in Procs : LiveFetched(p)
    \/ \E p \in Procs : OpenSnapshot(p)
    \/ \E p \in Procs : WriteBlock(p)
    \/ \E p \in Procs : CloseSnapshot(p)
    \/ ReadSnapshot
    \/ Respond

SpecConcurrent == InitConcurrent /\ [][NextConcurrent]_vars

(* ======================= the claims, C1 to C10 ========================= *)
Called == ret.op = "get_all_players"

Has(trace, e) == \E i \in 1..Len(trace) : trace[i] = e

UpstreamCalls(trace) ==
    { i \in 1..Len(trace) : trace[i] \in {"PlayerIndex", "LeagueDashPlayerStats"} }

SortedByPts(v) == \A i, j \in 1..Len(v) : i < j => v[i].pts >= v[j].pts

\* The store is reachable and its select returns at least one usable row.
StoreReturnsRecords ==
    /\ ~ret.force_refresh
    /\ ret.client \/ ret.db.client_ok
    /\ ret.db.select_ok
    /\ ret.table # <<>>
    /\ \A i \in 1..Len(ret.table) : "player_id" \in DOMAIN ret.table[i]

\* v holds one record per row of the table, with the row's id and points.
SameRoster(table, v) ==
    /\ Len(v) = Len(table)
    /\ \A i \in 1..Len(table) : \E j \in 1..Len(v) :
          /\ v[j].id = table[i].player_id
          /\ v[j].pts = Get(Get(table[i], "season_stats", <<>>), "pts", 0)

FreshSnapshot(cf, t) ==
    cf.kind = "json" /\ cf.players # <<>> /\ t - cf.timestamp < CACHE_DURATION_HOURS

LiveFails(up) == ~up.import_ok \/ up.league.raised

\* C2: get_all_players never raises; with the store empty, the snapshot
\* absent and the live fetch failing it returns the empty roster.
C2_NeverRaises ==
    Called =>
        /\ ~ret.raised
        /\ (ret.table = <<>> /\ ret.cache_before = Absent /\ LiveFails(ret.up))
              => ret.v = <<>>

C2_Witness ==
    /\ Called /\ ~ret.force_refresh /\ ret.db.client_ok /\ ret.db.select_ok
    /\ ret.table = <<>> /\ ret.cache_before = Absent
    /\ ret.up.import_ok /\ ret.up.league.raised
    /\ ~ret.raised /\ ret.v = <<>> /\ ret.tier = "empty"

\* C3: a snapshot holding at least one record when the call starts means a
\* non-empty roster is returned, whatever the store and the live fetch do.
C3_StalenessOverEmptiness ==
    (Called /\ ret.cache_before.kind = "json" /\ ret.cache_before.players # <<>>)
        => ret.v # <<>>

C5_ForceRefreshSkipsCaches ==
    (Called /\ ret.force_refresh) =>
        /\ ~Has(ret.trace, "get_players_from_supabase")
        /\ ~Has(ret.trace, "get_cached_players")
        /\ ret.trace[1] = "fetch_all_players_live"
        /\ supabase_client = ret.client
        /\ ret.tier \in {"live", "expired", "empty"}
        /\ ret.tier = "live" <=>
              fetch_all_players_live(ret.up, ret.cache_before, ret.at).v # <<>>
        /\ ret.tier = "live" <=> ~Has(ret.trace, "get_expired_cache")
        /\ ret.tier = "expired" => ret.v = cache_file.players
        /\ ret.tier = "empty" => ret.v = <<>>

C5_Witness ==
    /\ Called /\ ret.force_refresh /\ ret.client
    /\ ret.table # <<>> /\ \A i \in 1..Len(ret.table) : "player_id" \in DOMAIN ret.table[i]
    /\ FreshSnapshot(ret.cache_before, ret.at)
    /\ ret.tier = "live"

\* C6: at step 2 a snapshot with records is used exactly when it is less
\* than 24 hours old.
C6_FreshIffUnder24h ==
    (/\ Called /\ Has(ret.trace, "get_cached_players")
     /\ ret.cache_before.kind = "json" /\ ret.cache_before.players # <<>>)
        => (ret.tier = "cache"
              <=> ret.at - ret.cache_before.timestamp < CACHE_DURATION_HOURS)

\* C7: every roster get_all_players returns is in non-increasing order of
\* points per game.
C7_RosterSorted == Called => SortedByPts(ret.v)

C7_Witness ==
    /\ Called /\ ret.tier = "expired" /\ Len(ret.v) = 2
    /\ ret.v[1].pts > ret.v[2].pts

\* C8: the rating of every stat line is an integer from 60 to 99.
C8_RatingInRange ==
    fn_out.op = "rating" => fn_out.v \in 60..99

C8_Witness ==
    /\ fn_out.op = "rating"
    /\ fn_in.row.PTS = 10000000 /\ fn_in.row.REB = 5000000
    /\ fn_out.v = 99

\* C9: normalize_position returns one of the five labels for every raw code
\* and every stat line, and never raises.
C9_NormalizeTotal ==
    fn_out.op = "normalize_position" =>
        ~fn_out.raised /\ fn_out.v \in Positions

\* The code, in upper case and stripped, is "C" or "C-" followed by a
\* component without a hyphen.
CenterPrimary(p) ==
    /\ p # <<>>
    /\ p[1] = "C"
    /\ Len(p) > 1 => p[2] = "-" /\ \A i \in 3..Len(p) : p[i] # "-"

\* C10: a raw code that is "C", or a two-component combo whose first
\* component is "C", is normalised to C for every stat line.
C10_CenterPrimaryIsC ==
    (fn_out.op = "normalize_position" /\ CenterPrimary(Strip(Upper(fn_in.pos))))
        => ~fn_out.raised /\ fn_out.v = "C"

C10_Witness ==
    /\ fn_out.op = "normalize_position"
    /\ fn_in.pos = <<"C", "-", "F">>
    /\ fn_in.stats # <<>> /\ fn_in.stats.reb = 110
    /\ fn_out.v = "C"

(* ======================= the claims, C11 to C20 ======================== *)
Normalized == fn_out.op = "normalize_position"

\* The code as the normaliser sees it after pos.upper().strip().
Code == Strip(Upper(fn_in.pos))

\* The code has exactly one hyphen, with primary before it and secondary after.
TwoParts(p) == InStr("-", p) /\ Len(Split(p)) = 2

Stat(k) == Get(fn_in.stats, k, 0)

\* The single-letter rules as the claim states them.
GuardLabel ==
    IF Stat("ast") > Tenths(4) \/ (Stat("ast") > Tenths(2) /\ Stat("pts") < Tenths(15))
    THEN "PG" ELSE "SG"

ForwardLabel ==
    IF Stat("reb") > Tenths(6) \/ Stat("blk") > Tenths(1) THEN "PF" ELSE "SF"

\* The rule the code applies to a combo naming both a guard and a forward.
WingLabel == IF Stat("ast") > Stat("reb") THEN "SG" ELSE "SF"

GuardPrimary(p) == p = <<"G">> \/ (TwoParts(p) /\ Split(p)[1] = <<"G">>)

ForwardPrimaryNonCenter(p) ==
    p = <<"F">> \/ (TwoParts(p) /\ Split(p)[1] = <<"F">> /\ Split(p)[2] # <<"C">>)

HistoryDone == fn_out.op = "get_player_team_history"

\* The rows get_player_team_history looped over (none when the call failed).
CareerRowsIn ==
    IF fn_in.career.import_ok /\ ~fn_in.career.frame.raised
    THEN fn_in.career.frame.v ELSE <<>>

NoAdjacentEqual(v) == \A i \in 1..(Len(v) - 1) : v[i] # v[i + 1]

\* The first element of every run of equal elements of e, in order.
RunHeads(e) ==
    LET heads == { i \in 1..Len(e) : i = 1 \/ e[i] # e[i - 1] }
        nth[k \in 1..Cardinality(heads)] ==
            CHOOSE i \in heads : Cardinality({ j \in heads : j <= i }) = k
    IN  [k \in 1..Cardinality(heads) |-> e[nth[k]]]

\* s without the elements for which drop holds (drop is a set of values).
RECURSIVE Without(_, _)
Without(s, drop) ==
    IF s = <<>> THEN <<>>
    ELSE IF s[1] \in drop THEN Without(Tail(s), drop)
    ELSE <<s[1]>> \o Without(Tail(s), drop)

\* The stint each row stands for, season by season: the team the code
\* resolves the row to, renamed franchises under their current code.
Stints(rows) ==
    Without([i \in 1..Len(rows) |-> historical(team_abbr_of(rows[i]))], {"TOT", ""})

\* C12: the team list has no two adjacent equal abbreviations and keeps the
\* stints in chronological order: it is the first season of every run of
\* seasons with the same team.
C12_CollapsesAdjacentDuplicates ==
    HistoryDone =>
        /\ NoAdjacentEqual(fn_out.v)
        /\ fn_out.v = RunHeads(Stints(CareerRowsIn))

C12_Witness ==
    /\ HistoryDone
    /\ Stints(CareerRowsIn) = <<"ATL", "ATL", "BOS", "BOS", "ATL">>
    /\ fn_out.v = <<"ATL", "BOS", "ATL">>

\* A row flagged as the combined-stats row.
IsCombinedRow(row) == Get(row, "TEAM_ABBREVIATION", "") = "TOT"

CombinedRows(rows) == { rows[i] : i \in { j \in 1..Len(rows) : IsCombinedRow(rows[j]) } }

\* C13: a combined-stats row contributes nothing whatever its TEAM_ID: the
\* output is the output on the same rows with the combined-stats rows removed,
\* and never holds the marker.
C13_CombinedRowsContributeNothing ==
    HistoryDone =>
        /\ \A i \in 1..Len(fn_out.v) : fn_out.v[i] # "TOT"
        /\ fn_out.v = history_loop(Without(CareerRowsIn, CombinedRows(CareerRowsIn)),
                                   1, <<>>)

HistoricalCodes == {"NJN", "SEA", "VAN", "NOH", "NOK", "CHH"}

Successor ==
    ("NJN" :> "BKN") @@ ("SEA" :> "OKC") @@ ("VAN" :> "MEM") @@
    ("NOH" :> "NOP") @@ ("NOK" :> "NOP") @@ ("CHH" :> "CHA")

\* The team a row names, before any renaming.
NominalTeams(rows) == Without([i \in 1..Len(rows) |-> team_abbr_of(rows[i])], {"TOT", ""})

Renamed(e) ==
    [i \in 1..Len(e) |-> IF e[i] \in HistoricalCodes THEN Successor[e[i]] ELSE e[i]]

\* C14: none of the six historical codes is ever in the output; each is
\* replaced by its successor before duplicates are collapsed, so a renamed
\* franchise followed by its successor is one entry.
C14_HistoricalCodesReplaced ==
    HistoryDone =>
        /\ \A i \in 1..Len(fn_out.v) : fn_out.v[i] \notin HistoricalCodes
        /\ fn_out.v = RunHeads(Renamed(NominalTeams(CareerRowsIn)))

C14_Witness ==
    /\ HistoryDone
    /\ CareerRowsIn = <<CareerRow(0, "NJN"), CareerRow(1610612751, "BKN"),
                        CareerRow(0, "SEA"), CareerRow(1610612760, "OKC")>>
    /\ fn_out.v = <<"BKN", "OKC">>

\* The pool as the claim words it: the players with at least 15.0 points and
\* 20 games, in roster order, or the first 50 of the roster when there is none.
IsStar(p) == p.pts >= 150 /\ p.gp >= 20

Pool(roster) ==
    IF \E i \in 1..Len(roster) : IsStar(roster[i])
    THEN Without(roster, { roster[i] : i \in { j \in 1..Len(roster) : ~IsStar(roster[j]) } })
    ELSE [i \in 1..(IF Len(roster) < 50 THEN Len(roster) ELSE 50) |-> roster[i]]

\* C15: the selection is the pool's element at hash(date) mod pool size, the
\* index is in range, and two calls with the same date and the same resolved
\* roster select the same player.
C15_DailyDeterministic ==
    /\ \A k \in 1..Len(DailyCalls) :
          ~DailyCalls[k].raised =>
              /\ DailyCalls[k].v.index \in 0..(Len(Pool(DailyCalls[k].all_players)) - 1)
              /\ DailyCalls[k].v.index =
                    HexMod(MD5Hex[DailyCalls[k].today], 1, 0,
                           Len(Pool(DailyCalls[k].all_players)))
              /\ DailyCalls[k].v.player =
                    Pool(DailyCalls[k].all_players)[DailyCalls[k].v.index + 1]
    /\ \A j, k \in 1..Len(DailyCalls) :
          (/\ DailyCalls[j].today = DailyCalls[k].today
           /\ DailyCalls[j].all_players = DailyCalls[k].all_players)
              => DailyCalls[j] = DailyCalls[k]

\* Two calls on 2026-11-02 with the same 60 players, none a star: both pick
\* index 22 of the first 50.
C15_Witness ==
    /\ Len(DailyCalls) = 2
    /\ DailyCalls[1].today = "2026-11-02" /\ DailyCalls[2].today = "2026-11-02"
    /\ Len(DailyCalls[1].all_players) = 60
    /\ DailyCalls[2].all_players = DailyCalls[1].all_players
    /\ DailyCalls[1].v.index = 22
    /\ DailyCalls[2].v.player = DailyCalls[1].v.player
    /\ DailyCalls[2].v.player.id = 123

\* The four tiers in the order of the docstring of get_all_players.
TierRank ==
    ("get_players_from_supabase" :> 1) @@ ("get_cached_players" :> 2) @@
    ("fetch_all_players_live" :> 3) @@ ("get_expired_cache" :> 4)

TierPositions(trace) == { i \in 1..Len(trace) : trace[i] \in DOMAIN TierRank }

Count(trace, e) == Cardinality({ i \in 1..Len(trace) : trace[i] = e })

\* The tier whose result the call returned, "none" when every tier was empty.
AnsweringTier(tier) ==
    CASE tier = "supabase" -> "get_players_from_supabase"
      [] tier = "cache" -> "get_cached_players"
      [] tier = "live" -> "fetch_all_players_live"
      [] tier = "expired" -> "get_expired_cache"
      [] OTHER -> "none"

\* C20: within one get_all_players call the tiers run in the order store,
\* fresh snapshot, live fetch, stale snapshot, each at most once (so at most
\* one league-stats call and one position-index call), and a tier is tried
\* only when every tier tried before it gave no data: the tier that answers
\* is the last one tried.
C20_TiersInOrderOnce ==
    Called =>
        /\ \A i, j \in TierPositions(ret.trace) :
              i < j => TierRank[ret.trace[i]] < TierRank[ret.trace[j]]
        /\ Count(ret.trace, "LeagueDashPlayerStats") <= 1
        /\ Count(ret.trace, "PlayerIndex") <= 1
        /\ \A i \in TierPositions(ret.trace) :
              ret.trace[i] = AnsweringTier(ret.tier)
                 => \A j \in TierPositions(ret.trace) : j <= i
        /\ Has(ret.trace, "get_cached_players") =>
              ~Truthy(get_players_from_supabase(ret.client, ret.table, ret.db))
        /\ (Has(ret.trace, "get_cached_players") /\ Has(ret.trace, "fetch_all_players_live")) =>
              ~Truthy(get_cached_players(ret.cache_before, ret.at).v)
        /\ Has(ret.trace, "get_expired_cache") =>
              fetch_all_players_live(ret.up, ret.cache_before, ret.at).v = <<>>

\* All four tiers tried, in order, and the stale snapshot answers.
C20_Witness ==
    /\ Called
    /\ ret.tier = "expired"
    /\ Count(ret.trace, "LeagueDashPlayerStats") = 1
    /\ Cardinality(TierPositions(ret.trace)) = 4
    /\ ret.v # <<>>

JourneyCalled == ret.op = "get_journey_players"

\* The calls to the upstream provider a request can make.
UpstreamEvents == {"PlayerIndex", "LeagueDashPlayerStats", "PlayerCareerStats"}

\* The delay steps, in tenths of a second.
DelayTenths == ("sleep" :> 6) @@ ("sleep(0.3)" :> 3)

\* C16: in the trace of a request every upstream call (position index,
\* league stats, career rows) comes directly after a delay step of at least
\* 0.6 s, and two career calls of a cold reconstruction have a delay step
\* between them.
C16_DelayBeforeEveryUpstreamCall ==
    JourneyCalled =>
        /\ \A i \in 1..Len(ret.trace) :
              ret.trace[i] \in UpstreamEvents =>
                  /\ i > 1
                  /\ ret.trace[i - 1] \in DOMAIN DelayTenths
                  /\ DelayTenths[ret.trace[i - 1]] >= 6
        /\ \A i, j \in 1..Len(ret.trace) :
              (/\ i < j
               /\ ret.trace[i] = "PlayerCareerStats"
               /\ ret.trace[j] = "PlayerCareerStats")
                 => \E k \in (i + 1)..(j - 1) : ret.trace[k] \in DOMAIN DelayTenths

\* A cold reconstruction whose roster came from a live fetch: one call to
\* each bulk endpoint and two career calls.
C16_Witness ==
    /\ JourneyCalled
    /\ ret.tier = "upstream"
    /\ Count(ret.trace, "PlayerIndex") = 1
    /\ Count(ret.trace, "LeagueDashPlayerStats") = 1
    /\ Count(ret.trace, "PlayerCareerStats") = 2
    /\ Count(ret.trace, "sleep(0.3)") >= 1

\* A journey record as the journey game reads it: an id and a list of teams.
WellFormedJourney(p) == /\ "id" \in DOMAIN p
                        /\ "teams" \in DOMAIN p
                        /\ p.teams.some

C19_MinTeamsAndCount ==
    (JourneyCalled /\ ~ret.raised) =>
        /\ \A i \in 1..Len(ret.v) :
              ret.v[i].teams.some /\ Len(ret.v[i].teams.v) >= ret.min_teams
        /\ Len(ret.v) <= ret.count

\* A query for three teams answered from the journey snapshot that an earlier
\* query for two teams wrote: the snapshot holds a two-team player, the
\* answer does not.
C19_Witness ==
    /\ JourneyCalled
    /\ ret.tier = "cache"
    /\ ret.min_teams = 3 /\ ret.count = 1
    /\ ret.file_before.kind = "json"
    /\ \E i \in 1..Len(ret.file_before.players) :
          Len(ret.file_before.players[i].teams.v) = 2
    /\ Len(ret.v) = 1
    /\ Len(ret.v[1].teams.v) = 3

\* The two snapshot writers have both returned.
BothWritten == \A p \in Procs : writers[p].phase = "done"

SnapshotRead == ret # Idle /\ ret.op = "get_cached_players"

RosterCall == ret.op \in {"get_all_players", "refresh_players"}

\* The roster lines 234-279 build from what the two endpoints answered.
BuiltRoster(up) ==
    sort_by_pts(build_players(up.league.v, fetch_player_positions(up.index)).v)

\* The live fetch of this request got as far as save_to_cache.
LiveBuilt == Has(ret.trace, "save_to_cache")

\* C21: the roster snapshot changes only in a request whose live fetch built
\* a roster, and is then exactly that roster stamped with the time of the
\* call, with nothing of the previous snapshot in it; a store lookup, a
\* snapshot read and a live fetch ending in an upstream error leave the
\* snapshot as it was.  (A write that fails at open leaves the file as it
\* was, one that fails after open leaves it unreadable.)
C21_SnapshotReplacedWholesale ==
    RosterCall =>
        /\ ~LiveBuilt => cache_file = ret.cache_before
        /\ LiveFails(ret.up) => cache_file = ret.cache_before
        /\ cache_file # ret.cache_before => LiveBuilt
        /\ (LiveBuilt /\ ret.up.save = "ok") =>
              /\ cache_file = Doc(ret.at, BuiltRoster(ret.up))
              /\ Len(cache_file.players) = Len(ret.up.league.v)
              /\ \A i \in 1..Len(cache_file.players) :
                    \E j \in 1..Len(ret.up.league.v) :
                       cache_file.players[i].id = ret.up.league.v[j].PLAYER_ID
        /\ (LiveBuilt /\ ret.up.save = "open_fails") => cache_file = ret.cache_before
        /\ (LiveBuilt /\ ret.up.save = "dump_fails") => cache_file = Corrupt

\* A snapshot holding players 1 and 2 is replaced by a live roster of player
\* 3 alone.
C21_Witness ==
    /\ RosterCall /\ LiveBuilt /\ ret.up.save = "ok"
    /\ ret.cache_before.kind = "json"
    /\ Len(ret.cache_before.players) = 2
    /\ ret.at > ret.cache_before.timestamp
    /\ cache_file.kind = "json"
    /\ Len(cache_file.players) = 1
    /\ cache_file.players[1].id = 3
    /\ cache_file.timestamp = ret.at

\* The snapshot the call found does not parse.
CorruptBefore == ret.cache_before = Corrupt

\* C22: a corrupt snapshot is a cache miss at both reads.  With the store
\* giving nothing, step 2 goes on to the live fetch; when the live fetch then
\* gives nothing, step 4 ends in the empty roster; the error never reaches
\* the caller; and a live fetch whose write succeeds replaces the corrupt
\* file by a readable one.
C22_CorruptSnapshotIsMiss ==
    (Called /\ CorruptBefore) =>
        /\ ~ret.raised
        /\ ret.tier # "cache" /\ ret.tier # "expired"
        /\ (~ret.force_refresh /\ ret.tier # "supabase") =>
              /\ Has(ret.trace, "get_cached_players")
              /\ Has(ret.trace, "fetch_all_players_live")
        /\ (ret.tier # "supabase" /\ ret.tier # "live") =>
              /\ Has(ret.trace, "get_expired_cache")
              /\ ret.tier = "empty" /\ ret.v = <<>>
        /\ (LiveBuilt /\ ret.up.save = "ok") =>
              /\ cache_file = Doc(ret.at, BuiltRoster(ret.up))
              /\ get_cached_players(cache_file, ret.at) = Ok(Some(BuiltRoster(ret.up)))

\* A corrupt snapshot, the store giving nothing and the provider failing:
\* both reads miss and the call ends in the empty roster.
C22_Witness ==
    /\ Called /\ CorruptBefore /\ ~ret.force_refresh
    /\ ret.up.import_ok /\ ret.up.league.raised
    /\ Has(ret.trace, "get_cached_players")
    /\ Has(ret.trace, "get_expired_cache")
    /\ ret.tier = "empty" /\ ~ret.raised
    /\ cache_file = Corrupt

\* C23 as stated: the codes "F-C" and "C-F" are both normalised to PF, for
\* every stat line.
C23_BothCombosArePF ==
    (Normalized /\ Code \in {<<"F", "-", "C">>, <<"C", "-", "F">>})
        => ~fn_out.raised /\ fn_out.v = "PF"

\* C23, amended: "F-C" is normalised to PF and "C-F" to C, for every stat
\* line and with no stat line.
C23_ForwardCenterIsPF ==
    /\ (Normalized /\ Code = <<"F", "-", "C">>) => ~fn_out.raised /\ fn_out.v = "PF"
    /\ (Normalized /\ Code = <<"C", "-", "F">>) => ~fn_out.raised /\ fn_out.v = "C"

\* "F-C" with a guard's stat line (few rebounds and blocks, many assists).
C23_Witness ==
    /\ Normalized
    /\ fn_in.pos = <<"F", "-", "C">>
    /\ fn_in.stats # <<>>
    /\ fn_in.stats.reb = 30 /\ fn_in.stats.blk = 5 /\ fn_in.stats.ast = 55
    /\ fn_out.v = "PF"

\* The code is none the normaliser knows: it is none of C, G, F and, when
\* hyphenated, has two components, a primary that is none of C, G, F, and
\* does not name both a forward and a guard.
Unrecognized(p) ==
    /\ p \notin {<<"C">>, <<"G">>, <<"F">>}
    /\ InStr("-", p) =>
          /\ TwoParts(p)
          /\ Split(p)[1] \notin {<<"C">>, <<"G">>, <<"F">>}
          /\ ~(InStr("F", p) /\ InStr("G", p))

\* The ladder as the claim states it, on the stat line drawn.
LadderLabel ==
    CASE Stat("reb") > Tenths(8) /\ Stat("blk") > Tenths(1) -> "C"
      [] ~(Stat("reb") > Tenths(8) /\ Stat("blk") > Tenths(1))
         /\ Stat("reb") > Tenths(10) -> "C"
      [] Stat("reb") <= Tenths(10) /\ Stat("reb") > Tenths(6)
         /\ ~(Stat("reb") > Tenths(8) /\ Stat("blk") > Tenths(1)) -> "PF"
      [] Stat("reb") <= Tenths(6) /\ Stat("ast") > Tenths(5) -> "PG"
      [] Stat("reb") <= Tenths(6) /\ Stat("ast") <= Tenths(5)
         /\ Stat("ast") > Tenths(3) /\ Stat("pts") < Tenths(18) -> "PG"
      [] Stat("reb") <= Tenths(6) /\ Stat("ast") <= Tenths(5)
         /\ ~(Stat("ast") > Tenths(3) /\ Stat("pts") < Tenths(18))
         /\ Stat("pts") > Tenths(15) /\ Stat("reb") < Tenths(5)
         /\ Stat("ast") < Tenths(5) -> "SG"
      [] OTHER -> "SF"

\* C24: for a raw code that is empty or unrecognized and a stat line that is
\* present, the label is that of the first matching rule of the ladder.
C24_LadderFirstMatch ==
    (Normalized /\ fn_in.stats # <<>> /\ (fn_in.pos = <<>> \/ Unrecognized(Code)))
        => ~fn_out.raised /\ fn_out.v = LadderLabel

\* An unrecognized code with rebounds > 6 and assists > 5: the earlier rule
\* gives PF.
C24_Witness ==
    /\ Normalized
    /\ fn_in.pos = <<"X">>
    /\ fn_in.stats # <<>>
    /\ fn_in.stats.reb = 70 /\ fn_in.stats.ast = 55 /\ fn_in.stats.blk = 5
    /\ fn_out.v = "PF"

\* The weighted sum of the row drawn, times 1000.
WeightedSum ==
    50 * 1000 + fn_in.row.PTS * 150 + fn_in.row.REB * 80 + fn_in.row.AST * 120
    + fn_in.row.STL * 200 + fn_in.row.BLK * 200 + fn_in.row.FG_PCT * 20

\* The integers nearest to s / 1000 (two of them on a tie).
Nearest(s) ==
    IF 2 * (s % 1000) < 1000 THEN {s \div 1000}
    ELSE IF 2 * (s % 1000) > 1000 THEN {(s \div 1000) + 1}
    ELSE {s \div 1000, (s \div 1000) + 1}

Clamp(r) == IF r < 60 THEN 60 ELSE IF r > 99 THEN 99 ELSE r

\* C25: the rating is the weighted sum rounded to the nearest integer, then
\* clamped to 60..99.
C25_RatingRounded ==
    fn_out.op = "rating" => \E r \in Nearest(WeightedSum) : fn_out.v = Clamp(r)

ColdDone == fn_out.op = "journey_cold"

\* Games played of the roster's player with this id.
GpOf(id) ==
    fn_in.all_players[CHOOSE i \in 1..Len(fn_in.all_players) :
                         fn_in.all_players[i].id = id].gp

\* The player's career, as the provider answers, has min_teams teams or more.
Qualifies(id) ==
    Len(get_player_team_history(fn_in.careers[id]).v) >= fn_in.min_teams

\* Qualifying players among the first j examined.
FoundAfter(j) == Cardinality({ k \in 1..j : Qualifies(fn_out.probed[k]) })

ProbedIds == { fn_out.probed[j] : j \in 1..Len(fn_out.probed) }

\* C26: a cold reconstruction makes one career call per candidate examined,
\* examines no candidate twice, takes the candidates in non-increasing order
\* of games played ahead of every player it leaves out, makes at most 100
\* calls, makes no call after the one at which the number found reached
\* 2 * count, and stops short of the candidates only for that reason.
C26_ColdProbing ==
    ColdDone =>
        /\ fn_out.calls = Len(fn_out.probed)
        /\ Cardinality(ProbedIds) = Len(fn_out.probed)
        /\ \A j, k \in 1..Len(fn_out.probed) :
              j < k => GpOf(fn_out.probed[j]) >= GpOf(fn_out.probed[k])
        /\ \A i \in 1..Len(fn_in.all_players) :
              fn_in.all_players[i].id \notin ProbedIds =>
                  \A id \in ProbedIds : GpOf(id) >= fn_in.all_players[i].gp
        /\ fn_out.calls <= 100
        /\ \A j \in 1..(Len(fn_out.probed) - 1) : FoundAfter(j) < 2 * fn_in.count
        /\ Len(fn_out.found) = FoundAfter(Len(fn_out.probed))
        /\ (Len(fn_out.probed) < Len(fn_in.all_players) /\ Len(fn_out.probed) < 100)
              => Len(fn_out.found) >= 2 * fn_in.count

\* A roster of 102 with 60 qualifying players asked for: the 100 calls are
\* made, 50 players are found, and two players are never examined.
C26_Witness ==
    /\ ColdDone
    /\ Len(fn_in.all_players) = 102
    /\ fn_in.count = 30 /\ fn_in.min_teams = 3
    /\ fn_out.calls = 100
    /\ Len(fn_out.found) = 50

\* The call went as far as the cold reconstruction.
ColdCall == JourneyCalled /\ ret.tier = "upstream"

\* Position of the first e in the trace, 0 when there is none.
FirstAt(trace, e) ==
    IF Has(trace, e)
    THEN CHOOSE i \in 1..Len(trace) :
            trace[i] = e /\ \A j \in 1..(i - 1) : trace[j] # e
    ELSE 0

\* The table holds a row for this journey record.
Stored(table, p) ==
    \E i \in 1..Len(table) :
       /\ Get(table[i], "player_id", 0) = p.id
       /\ Get(table[i], "teams", NoneVal) = p.teams

WeekHours == 7 * 24

\* C27: a cold reconstruction writes every record found, not the cut result,
\* to the journey snapshot (when the file can be written) and to the journey
\* table (when the store answers), both before the shuffle; what it returns
\* is at most count of the records found; and a call that the store tier
\* does not answer is answered from the journey snapshot exactly while the
\* snapshot is less than 7 x 24 hours old.
C27_FullSetPersisted ==
    /\ ColdCall =>
          /\ Len(ret.found) = Cardinality({ i \in 1..Len(ret.probed) :
                Len(get_player_team_history(ret.careers[ret.probed[i]]).v)
                    >= ret.min_teams })
          /\ ret.jsave = "ok" => journey_cache_file = Doc(ret.at, ret.found)
          /\ ret.store = "up" =>
                \A i \in 1..Len(ret.found) : Stored(journey_players, ret.found[i])
          /\ FirstAt(ret.trace, "journey_cache_write") > 0
          /\ FirstAt(ret.trace, "journey_cache_write") < FirstAt(ret.trace, "shuffle")
          /\ FirstAt(ret.trace, "save_journey_players_to_supabase")
                < FirstAt(ret.trace, "shuffle")
          /\ Len(ret.v) <= ret.count
          /\ \A i \in 1..Len(ret.v) : \E j \in 1..Len(ret.found) : ret.v[i] = ret.found[j]
    /\ (JourneyCalled /\ ~ret.raised /\ ret.tier # "supabase"
          /\ ret.file_before.kind = "json") =>
          (ret.tier = "cache" <=> ret.at - ret.file_before.timestamp < WeekHours)

\* Two qualifying players found for a request of one: one is returned, both
\* are in the snapshot and in the table.
C27_Witness ==
    /\ ColdCall
    /\ ret.count = 1 /\ ret.store = "up" /\ ret.jsave = "ok"
    /\ Len(ret.found) = 2 /\ Len(ret.v) = 1
    /\ journey_cache_file.kind = "json"
    /\ Len(journey_cache_file.players) = 2
    /\ \A i \in 1..2 : Stored(journey_players, ret.found[i])

\* The call just made is the one of the outage: the table held nothing, no
\* journey snapshot existed, the roster was not empty, every career call
\* failed, and the result was empty.
OutageCall ==
    /\ ColdCall /\ ret.count = 1
    /\ ret.table_before = <<>> /\ ret.file_before = Absent
    /\ ret.probed # <<>>
    /\ \A i \in DOMAIN ret.careers : ret.careers[i].frame.raised
    /\ ret.found = <<>> /\ ret.v = <<>>

\* A later call's surroundings once the provider has recovered: the store as
\* the outage call found it, the roster and every career call answered, the
\* file system sound; the state is the one the outage call left.
RecoveredCtx(count, min_teams, k, t) ==
    [count |-> count, min_teams |-> min_teams, store |-> ret.store, shuffle |-> k,
     up |-> CHOOSE up \in JourneyUps : up.import_ok,
     careers |-> JourneyCareers({}), jsave |-> "ok", t |-> t,
     supabase_client |-> supabase_client, cached_players |-> cached_players,
     cache_file |-> cache_file, journey_players |-> journey_players,
     journey_cache_file |-> journey_cache_file]

\* C28: after the outage call, a call for one player made once the provider
\* has recovered (at once or half a week later) returns a player.
C28_JourneyRecovers ==
    OutageCall =>
        \A min_teams \in JourneyMinTeams, k \in Shuffles, t \in {now, now + JourneyTick} :
            /\ ~get_journey_players(RecoveredCtx(1, min_teams, k, t)).raised
            /\ get_journey_players(RecoveredCtx(1, min_teams, k, t)).v # <<>>

\* A snapshot with no player to serve, at any time: none, an unreadable one,
\* or one holding the empty roster.
NothingToServe(cf) == cf.kind \in {"absent", "corrupt"} \/ cf.players = <<>>

\* The provider answers the live fetch with rows from which the roster is
\* built.
LiveAnswers(up) ==
    /\ up.import_ok
    /\ ~up.league.raised /\ up.league.v # <<>>
    /\ ~build_players(up.league.v, fetch_player_positions(up.index)).raised

\* C29: a call that ends in the empty roster leaves a snapshot with nothing
\* to serve, and nothing else; and a call with force_refresh false that
\* finds such a snapshot, gets nothing from the store and has the provider
\* answering returns the live roster, which is not empty, and writes it to
\* the snapshot (when the file can be written).
C29_RosterRecovers ==
    /\ (Called /\ ret.tier = "empty") =>
          /\ ret.v = <<>> /\ ~ret.raised
          /\ NothingToServe(cache_file)
          /\ cached_players = ret.table
    /\ (Called /\ ~ret.force_refresh /\ ret.tier # "supabase"
          /\ NothingToServe(ret.cache_before) /\ LiveAnswers(ret.up)) =>
          /\ ~ret.raised
          /\ ret.tier = "live"
          /\ ret.v = BuiltRoster(ret.up) /\ ret.v # <<>>
          /\ ret.up.save = "ok" => cache_file = Doc(ret.at, ret.v)

\* The call finds the empty roster that a live fetch without rows wrote the
\* same hour, and the store giving nothing; the provider answers with two
\* players, who are returned and written.
C29_Witness ==
    /\ Called /\ ~ret.force_refresh
    /\ ret.cache_before.kind = "json" /\ ret.cache_before.players = <<>>
    /\ ret.cache_before.timestamp = ret.at /\ ret.at > 0
    /\ ret.tier = "live" /\ Len(ret.v) = 2
    /\ cache_file = Doc(ret.at, ret.v)

\* The ladder of the stats-only heuristic on a row of the bulk endpoint.
RowLadder(row) ==
    CASE row.REB > Tenths(8) /\ row.BLK > Tenths(1) -> "C"
      [] ~(row.REB > Tenths(8) /\ row.BLK > Tenths(1)) /\ row.REB > Tenths(10) -> "C"
      [] ~(row.REB > Tenths(8) /\ row.BLK > Tenths(1)) /\ row.REB <= Tenths(10)
         /\ row.REB > Tenths(6) -> "PF"
      [] row.REB <= Tenths(6) /\ row.AST > Tenths(5) -> "PG"
      [] row.REB <= Tenths(6) /\ row.AST <= Tenths(5) /\ row.AST > Tenths(3)
         /\ row.PTS < Tenths(18) -> "PG"
      [] row.REB <= Tenths(6) /\ row.AST <= Tenths(5)
         /\ ~(row.AST > Tenths(3) /\ row.PTS < Tenths(18))
         /\ row.PTS > Tenths(15) /\ row.REB < Tenths(5) /\ row.AST < Tenths(5) -> "SG"
      [] OTHER -> "SF"

\* The position call failed and the bulk call answered.
IndexFailedOnly ==
    /\ RosterCall
    /\ ret.up.import_ok /\ ret.up.index.raised /\ ~ret.up.league.raised

\* What the request's live fetch returned.
LiveResult ==
    IF ret.op = "refresh_players" \/ ret.tier = "live" THEN ret.v ELSE <<>>

\* C30: when the position call fails and the bulk call answers, the live
\* fetch returns one record per row, writes them to the snapshot (when the
\* file can be written), and every record's position is the label the
\* stats-only ladder gives its row, one of PG, SG, SF, PF, C.
C30_IndexFailureNotFatal ==
    IndexFailedOnly =>
        /\ ~ret.raised
        /\ LiveBuilt
        /\ Len(LiveResult) = Len(ret.up.league.v)
        /\ \A j \in 1..Len(ret.up.league.v) : \E i \in 1..Len(LiveResult) :
              /\ LiveResult[i].id = ret.up.league.v[j].PLAYER_ID
              /\ LiveResult[i].position = RowLadder(ret.up.league.v[j])
              /\ LiveResult[i].position \in Positions
        /\ ret.up.save = "ok" => cache_file = Doc(ret.at, LiveResult)

\* The refresh endpoint with the position call failing: two players come
\* back, a centre and a point guard by their stats.
C30_Witness ==
    /\ IndexFailedOnly /\ ret.op = "refresh_players" /\ ret.up.save = "ok"
    /\ Len(ret.v) = 2
    /\ \E i, j \in 1..2 : ret.v[i].position = "C" /\ ret.v[j].position = "PG"
    /\ cache_file = Doc(ret.at, ret.v)

====
